---- MODULE Spec2Model ----
(***************************************************************************)
(* Service process lifecycle of Mystira.DevHub (src-tauri/src/services).   *)
(*                                                                         *)
(* The registry (ServiceManager) is a mutex-protected map from service     *)
(* name to ServiceInfo.  The tauri commands start_service, stop_service    *)
(* and prebuild_service run as concurrent tasks; every lock scope of the   *)
(* source is one atomic step here and every await (build, kill, sleep) is  *)
(* a point where other tasks may run.                                      *)
(***************************************************************************)
EXTENDS Integers, Sequences, FiniteSets, TLC

(* ------------------------------ bounds -------------------------------- *)

\* concurrent command invocations (tauri tasks) that may be in flight
MaxCallers == 2
\* commands invoked in one behaviour
MaxCalls == 3

(* ----------------------------- constants ------------------------------ *)

PortApi == 7096
PortAdminApi == 7097
PortPwa == 7000

\* lifecycle.rs:36  let all_services = vec!["api", "admin-api", "pwa"];
AllServices == <<"api", "admin-api", "pwa">>

Names == {AllServices[i] : i \in 1..Len(AllServices)}

\* a service name get_service_paths does not know
UnknownName == "other"

\* repo_root arguments: empty, a path that does not exist, a path that exists
Roots == {"", "missing", "repo"}

Callers == 1..MaxCallers
\* one OS process per successful spawn of `dotnet run`: at most one a call
ProcIds == 1..MaxCalls

\* Option::None of ServiceInfo.pid
NoPid == 0

\* the mutex of ServiceManager when no guard is alive
Unlocked == 0
\* the holder that stands for the reaper tasks
ReaperTask == MaxCallers + 1
\* absent key of the registry map
NoRec == [name |-> "none", port |-> 0, url |-> "none", pid |-> NoPid, proc |-> 0]

VARIABLES
    services,   \* ServiceManager: name -> ServiceInfo (NoRec when absent)
    lock,       \* the mutex of ServiceManager: Unlocked or its holder
    call,       \* per task: the command it runs, its position and locals
    proc,       \* OS processes spawned by `dotnet run`, with their reaper task
    nextPid,    \* next process identifier the OS hands out
    calls,      \* commands invoked so far
    ret         \* the call that just returned, with its result and history,
                \* until the caller has taken it (IdleCall when there is none)

lifecycleVars == <<services, lock, call, proc, nextPid, calls, ret>>

\* stop_service_process(info) followed on its own, step by step
VARIABLES
    target,     \* cfg(target_os) of the build: "windows" or "other"
    info,       \* the ServiceInfo it is called with
    kpc,        \* its position
    polls,      \* iterations of the poll loop completed
    cmds,       \* termination commands issued, in order
    procUp      \* whether the process of the record (the owner of its port
                \* when it has no pid) is running

killVars == <<target, info, kpc, polls, cmds, procUp>>

\* RateLimiter (rate_limit.rs)
VARIABLES
    instant,    \* position of the system clock on the Timeline
    limitOf,    \* configured requests per minute of every service
    requests,   \* RateLimiter.requests: service -> window of timestamps
    rlock,      \* the mutex of RateLimiter.requests
    rl,         \* per caller: its wait_if_needed call
    rcalls,     \* calls of wait_if_needed so far
    overlapped  \* history: two enabled calls were under way at once

rateVars == <<instant, limitOf, requests, rlock, rl, rcalls, overlapped>>

\* StringCache (cache.rs)
VARIABLES
    clock,      \* SystemTime::now(), in seconds
    entries,    \* StringCache.entries: key -> CacheEntry (NoEntry when absent)
    cops,       \* cache operations called so far
    last,       \* the operation that returned last: its arguments and result
    lastSet,    \* history: per key, the latest set made with caching enabled
                \* and not followed by an invalidate of the key or a clear
    prevExp,    \* history: per key, the expiry the entry had before that set
    unstored    \* history: <<key, value>> of the sets made while caching was
                \* disabled

cacheVars == <<clock, entries, cops, last, lastSet, prevExp, unstored>>

\* retry_with_backoff / retry_on_retryable_error (retry.rs), one call
VARIABLES
    rpc,        \* position of the call: "idle", "invoke", "sleep", "done"
    variant,    \* "plain" (retry_with_backoff) or "classified"
    renabled,   \* config.retry.enabled as loaded by the call
    policy,     \* the RetryPolicy of the call
    attempt,    \* local attempt
    backoff_ms, \* local backoff_ms
    outcomes,   \* history: the results of the invocations made so far
    sleeps,     \* history: the sleeps made so far, in milliseconds
    rresult     \* the value returned (NoResult until then)

retryVars == <<rpc, variant, renabled, policy, attempt, backoff_ms,
               outcomes, sleeps, rresult>>

\* setup_log_streaming (services/helpers.rs) around one build or run step
VARIABLES
    pipe,       \* per stream: what the child will still write
    lpc,        \* per stream: position of its streaming task
    line,       \* per stream: the line read last
    delivered,  \* events the sink accepted, in order
    dropped,    \* history: lines whose emit_all failed
    source,     \* "build" (build_service) or "run" (start_service)
    exited,     \* exit of the child: "running", "success", "failure"
    stepResult, \* result of the step: "pending", "Ok", "Err"
    logService, \* the service_name handed to setup_log_streaming
    published   \* history: the payload of every emit_all call, in order

logVars == <<pipe, lpc, line, delivered, dropped, source, exited, stepResult,
             logService, published>>

\* check_service_health (services/status.rs), one call at a time
VARIABLES
    hpc,        \* position of the call: "idle", "send", "done"
    hbuilt,     \* whether Client::builder().build() gave a client
    hcond,      \* what the request meets at the url
    hresult,    \* the value returned: "none", "true", "false", "Err"
    hcalls      \* calls made so far

healthVars == <<hpc, hbuilt, hcond, hresult, hcalls>>

\* get_azure_resources (azure/resources.rs) and get_github_deployments
\* (github.rs), one call at a time
VARIABLES
    mclock,     \* seconds since the start
    mentries,   \* per listing: the entries of its StringCache
    mcall,      \* the call under way, or the one that returned last
    mpasses,    \* history: passes through the rate limiter
    mtools,     \* history: invocations of an external tool
    mfetched,   \* history, per listing and key: the last successful fetch
    mcalls      \* calls made so far

memoVars == <<mclock, mentries, mcall, mpasses, mtools, mfetched, mcalls>>

vars == <<lifecycleVars, killVars, rateVars, cacheVars, retryVars, logVars,
          healthVars, memoVars>>

(* ------------------------- pure functions ----------------------------- *)

\* helpers.rs get_service_paths: port of a known service
ServicePort(n) ==
    CASE n = "api" -> PortApi
      [] n = "admin-api" -> PortAdminApi
      [] n = "pwa" -> PortPwa
      [] OTHER -> 0

\* helpers.rs get_service_paths: url of a known service
ServiceUrl(n) ==
    CASE n = "api" -> "https://localhost:7096/swagger"
      [] n = "admin-api" -> "https://localhost:7097/swagger"
      [] n = "pwa" -> "http://localhost:7000"
      [] OTHER -> "none"

\* helpers.rs get_service_paths: Ok for the three known names, Err otherwise
get_service_paths_ok(n) == n \in Names

\* a ServiceInfo that carries the port of the api whatever the service
ServiceInfoApiPort(n, pid, p) ==
    [name |-> n, port |-> PortApi, url |-> ServiceUrl(n), pid |-> pid, proc |-> p]

\* lifecycle.rs:147-152  the ServiceInfo start_service builds.  proc is the
\* process the record was created for (the child moved into the reaper).
ServiceInfo(n, pid, p) ==
    [name |-> n, port |-> ServicePort(n), url |-> ServiceUrl(n), pid |-> pid, proc |-> p]

\* helpers.rs is_process_running: probe of a pid
is_process_running(pid) ==
    pid \in ProcIds /\ proc[pid].state = "alive"

\* status.rs get_service_status: the names listed
get_service_status ==
    {n \in Names : services[n] # NoRec /\ services[n].pid # NoPid
                   /\ is_process_running(services[n].pid)}

\* HashMap::contains_key
contains_key(n) == n \in Names /\ services[n] # NoRec

\* HashMap::insert: replaces whatever the key held
MapInsert(m, n, rec) == [m EXCEPT ![n] = rec]

\* HashMap::remove: no effect on an absent key
MapRemove(m, n) == IF n \in DOMAIN m THEN [m EXCEPT ![n] = NoRec] ELSE m

(* --------------------------- task records ----------------------------- *)

IdleCall ==
    [op |-> "idle", pc |-> "idle", name |-> "none", root |-> "", projOk |-> FALSE,
     result |-> "none",
     child |-> 0,           \* start_service: the spawned child
     pid |-> NoPid,         \* start_service: child.id()
     info |-> NoRec,        \* stop_service: service_info
     toStop |-> <<>>,       \* prebuild_service: services_to_stop
     idx |-> 1,             \* prebuild_service: position in the stop loop
     \* history of the call, read by the properties only
     build |-> "none",      \* outcome of the build it ran
     spawned |-> FALSE,     \* a run process was spawned
     inserted |-> FALSE,    \* a record was inserted
     kills |-> <<>>,        \* kill attempts issued, in order
     overwrote |-> FALSE,   \* start: its insert replaced a record that was present
     sawInsert |-> FALSE,   \* stop: a start call inserted a record of its name during it
     found |-> {},          \* prebuild: names it collected
     overlap |-> FALSE,     \* prebuild: a start call was past its check during it
     listed |-> {}]         \* status: the entries returned

Present(m) == {n \in Names : m[n] # NoRec}

NewCall(op, n, root, projOk) ==
    [IdleCall EXCEPT !.op = op, !.name = n, !.root = root, !.projOk = projOk]

InFlight(c) == call[c].op # "idle"

\* tasks are interchangeable: a new command runs in the first free one
FreeTask(c) ==
    /\ calls < MaxCalls
    /\ ~InFlight(c) /\ \A d \in Callers : d < c => InFlight(d)

\* no result is waiting to be taken
Quiet == ret = IdleCall

\* a start call that passed its check and has not returned
StartPastCheck(rec) == rec.op = "start" /\ rec.pc \in {"build", "spawn", "insert"}

\* the call returns res
Finish(rec, res) == [rec EXCEPT !.pc = "done", !.result = res]

\* history: a record of name n was inserted; every stop call of n in flight
\* remembers it
NoteInsert(cs, n) ==
    [c \in Callers |->
        IF cs[c].op = "stop" /\ cs[c].name = n
        THEN [cs[c] EXCEPT !.sawInsert = TRUE] ELSE cs[c]]

\* history: when a start call is past its check, every prebuild in flight
\* remembers it
NoteStart(cs) ==
    IF \E s \in Callers : StartPastCheck(cs[s])
    THEN [c \in Callers |->
            IF cs[c].op = "prebuild" THEN [cs[c] EXCEPT !.overlap = TRUE] ELSE cs[c]]
    ELSE cs

\* task c moves to rec, the other tasks being cs; a call that returned
\* leaves its task free and is shown in ret, in the state it returned to
Step(c, rec, cs) ==
    IF rec.pc = "done"
    THEN /\ call' = [cs EXCEPT ![c] = IdleCall]
         /\ ret' = rec
    ELSE /\ call' = NoteStart([cs EXCEPT ![c] = rec])
         /\ ret' = IdleCall

\* whether <root>/src/<project of n> exists: it can only under an existing
\* root and for a known service
ProjectDirStates(n, root) ==
    IF root = "repo" /\ n \in Names THEN BOOLEAN ELSE {FALSE}

\* the arguments of a command and the state of the file system it meets
Inputs ==
    {in \in (Names \cup {UnknownName}) \X Roots \X BOOLEAN :
        in[3] \in ProjectDirStates(in[1], in[2])}

\* helpers.rs:160-186 build_service: the build succeeds, the build tool
\* exits non-zero, or the build tool cannot be spawned
BuildOutcomes == {"ok", "nonzero", "nospawn"}

\* a lock scope whose guard outlives its block
KeepGuard(h) == h

\* a lock scope of lifecycle.rs ends: the guard taken by holder h is
\* dropped at the closing brace, before the next await
DropGuard(h) == Unlocked

(* ---------------------------- rate limiter ---------------------------- *)

\* concurrent callers of wait_if_needed
MaxRlCallers == 2
\* calls of wait_if_needed in one behaviour
MaxRlCalls == 3

\* rate_limit.rs:38  now.saturating_sub(60)
Window == 60

\* rate_limit.rs:115, 121  the services that are rate limited
RlServices == {"azure", "github"}

\* requests per minute a configuration may set
Limits == {0, 1, 2}

\* the seconds since the epoch at which the clock is read: within one
\* second, one second on, and just inside, at and just past one window
Timeline == <<100, 101, 159, 160, 161, 220>>

RlCallers == 1..MaxRlCallers

\* the mutex of RateLimiter.requests: no guard alive / poisoned by a panic
RlUnlocked == 0
RlPoisoned == -1

\* HashMap<String, Vec<u64>>: no entry for the service
NoWindow == [present |-> FALSE, ts |-> <<>>]

RlIdle ==
    [pc |-> "idle", service |-> "none", enabled |-> FALSE,
     now |-> 0,         \* rate_limit.rs:33  now
     wait |-> 0,        \* wait_seconds (0 for None)
     wake |-> 0]        \* the clock at which the sleep is over

\* no call of wait_if_needed was made
RateIdle ==
    /\ instant = 1
    /\ limitOf = [s \in RlServices |-> 1]
    /\ requests = [s \in RlServices |-> NoWindow]
    /\ rlock = RlUnlocked
    /\ rl = [c \in RlCallers |-> RlIdle]
    /\ rcalls = 0
    /\ overlapped = FALSE

\* the variables of the other components
notLifecycle ==
    <<killVars, rateVars, cacheVars, retryVars, logVars, healthVars, memoVars>>
notKill ==
    <<lifecycleVars, rateVars, cacheVars, retryVars, logVars, healthVars, memoVars>>
notRate ==
    <<lifecycleVars, killVars, cacheVars, retryVars, logVars, healthVars, memoVars>>
notCache ==
    <<lifecycleVars, killVars, rateVars, retryVars, logVars, healthVars, memoVars>>
notRetry ==
    <<lifecycleVars, killVars, rateVars, cacheVars, logVars, healthVars, memoVars>>
notLog ==
    <<lifecycleVars, killVars, rateVars, cacheVars, retryVars, healthVars, memoVars>>
notHealth ==
    <<lifecycleVars, killVars, rateVars, cacheVars, retryVars, logVars, memoVars>>
notMemo ==
    <<lifecycleVars, killVars, rateVars, cacheVars, retryVars, logVars, healthVars>>

\* stop_service_process is not being followed
KillIdle ==
    /\ target = "other"
    /\ info = NoRec
    /\ kpc = "idle"
    /\ polls = 0
    /\ cmds = <<>>
    /\ procUp = FALSE

(* ------------------------------- cache -------------------------------- *)

\* cache operations called in one behaviour
MaxCacheOps == 3
\* seconds the clock runs
MaxCacheTime == 4
\* the largest ttl_seconds passed to set
MaxTtl == 2

\* keys of one StringCache
Keys == {"a", "b"}

\* every set passes a value of its own: the number of the operation
CacheValues == 1..MaxCacheOps

\* Option::None returned by get
Miss == 0

\* absent key of the entries map
NoEntry == [present |-> FALSE, data |-> Miss, expires_at |-> 0]

\* no operation has returned yet
NoOp ==
    [op |-> "none", key |-> "none", enabled |-> FALSE, at |-> 0, ttl |-> 0,
     value |-> Miss, result |-> Miss]

NoSet == [made |-> FALSE, value |-> Miss, at |-> 0, ttl |-> 0]

\* no overwritten entry
NoExpiry == -1

\* cache.rs:44-48  StringCache::new, and no operation called
CacheIdle ==
    /\ clock = 0
    /\ entries = [k \in Keys |-> NoEntry]
    /\ cops = 0
    /\ last = NoOp
    /\ lastSet = [k \in Keys |-> NoSet]
    /\ prevExp = [k \in Keys |-> NoExpiry]
    /\ unstored = {}

(* ------------------------------- retry -------------------------------- *)

\* retry.rs:14-17  the fields of a RetryPolicy; backoff_multiplier is the
\* fraction mult_num / mult_den
RetryCounts == {0, 1, 3}
InitialBackoffs == {1, 3, 100}
MaxBackoffs == {4, 5000}
Multipliers == {<<2, 1>>, <<3, 2>>}

Policies ==
    [max_retries : RetryCounts, initial_backoff_ms : InitialBackoffs,
     max_backoff_ms : MaxBackoffs, multiplier : Multipliers]

\* config.rs:110-116  the defaults
DefaultPolicy ==
    [max_retries |-> 3, initial_backoff_ms |-> 100, max_backoff_ms |-> 5000,
     multiplier |-> <<2, 1>>]

\* error messages an operation may fail with, word by word
ErrConnection == <<"Connection", "refused">>
ErrRateLimit == <<"GitHub", "Rate", "Limit", "exceeded">>
ErrNotFound == <<"Resource", "not", "found">>
ErrMsgs == {ErrConnection, ErrRateLimit, ErrNotFound}

\* Ok(result) of the operation
OkResult == <<"ok">>
\* the call has not returned
NoResult == <<>>

\* neither retry function is running
RetryIdle ==
    /\ rpc = "idle"
    /\ variant = "plain"
    /\ renabled = TRUE
    /\ policy = DefaultPolicy
    /\ attempt = 0
    /\ backoff_ms = 0
    /\ outcomes = <<>>
    /\ sleeps = <<>>
    /\ rresult = NoResult

(* --------------------------- log streaming ---------------------------- *)

\* lines a child writes to one stream
MaxLines == 2

\* helpers.rs:106, 132  the two streams of a child
Streams == {"stdout", "stderr"}

\* what next_line() meets: a line of text, or bytes it cannot read as a line
LineKinds == {"text", "unreadable"}

PipeContents == UNION {[1..n -> LineKinds] : n \in 0..MaxLines}

\* no child is being streamed
LogIdle ==
    /\ pipe = [s \in Streams |-> <<>>]
    /\ lpc = [s \in Streams |-> "ended"]
    /\ line = [s \in Streams |-> 0]
    /\ delivered = <<>>
    /\ dropped = {}
    /\ source = "build"
    /\ exited = "success"
    /\ stepResult = "Ok"
    /\ logService = "api"
    /\ published = <<>>

(* ---------------------------- health check ---------------------------- *)

\* calls of check_service_health in one behaviour
MaxHealthCalls == 3

\* status.rs:42  timeout(Duration::from_secs(2))
HealthTimeout == 2

\* status codes a service may answer with
StatusCodes == {200, 201, 204, 299, 300, 400, 404, 500, 503}

\* seconds a response takes: inside and outside the timeout
Delays == {1, 3}

\* nothing was requested
NoCond == [net |-> "none", status |-> 0, delay |-> 0]

\* what the request meets: nobody listens at the port, the url is not one,
\* or a server that answers with a status after a delay
Conditions ==
    {[net |-> n, status |-> 0, delay |-> 0] : n \in {"refused", "badurl"}}
        \cup [net : {"answers"}, status : StatusCodes, delay : Delays]

\* no call of check_service_health was made
HealthIdle ==
    /\ hpc = "idle"
    /\ hbuilt = FALSE
    /\ hcond = NoCond
    /\ hresult = "none"
    /\ hcalls = 0

(* ------------------------- memoized listings -------------------------- *)

\* calls of the two listing commands in one behaviour
MaxMemoCalls == 2
\* seconds the clock runs
MaxMemoTime == 2

\* cache.rs:112-113  the two listings, each with a StringCache of its own
Listings == {"azure_resources", "github_deployments"}

NoFetch == [made |-> FALSE, at |-> 0, ttl |-> 0, value |-> Miss]

\* no call is under way
NoListing ==
    [pc |-> "idle", kind |-> "none", key |-> "none", ttl |-> 0,
     enabled |-> FALSE, result |-> "none", value |-> Miss]

\* no listing was requested
MemoIdle ==
    /\ mclock = 0
    /\ mentries = [l \in Listings |-> [k \in Keys |-> NoEntry]]
    /\ mcall = NoListing
    /\ mpasses = 0
    /\ mtools = 0
    /\ mfetched = [l \in Listings |-> [k \in Keys |-> NoFetch]]
    /\ mcalls = 0

(* ------------------------------- Init --------------------------------- *)

NoProc == [state |-> "unborn", name |-> "none", reaper |-> "none"]
\* a process that exited and whose reaper task has finished
Reaped == [state |-> "dead", name |-> "none", reaper |-> "done"]

LifecycleInit ==
    /\ services = [n \in Names |-> NoRec]
    /\ lock = Unlocked
    /\ call = [c \in Callers |-> IdleCall]
    /\ proc = [p \in ProcIds |-> NoProc]
    /\ nextPid = 1
    /\ calls = 0
    /\ ret = IdleCall

Init ==
    /\ LifecycleInit
    /\ KillIdle
    /\ RateIdle
    /\ CacheIdle
    /\ RetryIdle
    /\ LogIdle
    /\ HealthIdle
    /\ MemoIdle

(* --------------------------- start_service ---------------------------- *)

\* lifecycle.rs:97-126  the registry check under the lock, then the checks
\* of the repository root, the service name and the project directory
\* a start_service without the registry check
StartCheckNoRegistry(rec) ==
    IF rec.root = "" THEN Finish(rec, "InvalidEnvironment")
    ELSE IF rec.root = "missing" THEN Finish(rec, "InvalidEnvironment")
    ELSE IF ~get_service_paths_ok(rec.name) THEN Finish(rec, "UnknownService")
    ELSE IF ~rec.projOk THEN Finish(rec, "InvalidEnvironment")
    ELSE [rec EXCEPT !.pc = "build"]

\* a start_service without the check of the project directory
StartCheckNoProjectDir(rec) ==
    IF contains_key(rec.name) THEN Finish(rec, "AlreadyRunning")
    ELSE IF rec.root = "" THEN Finish(rec, "InvalidEnvironment")
    ELSE IF rec.root = "missing" THEN Finish(rec, "InvalidEnvironment")
    ELSE IF ~get_service_paths_ok(rec.name) THEN Finish(rec, "UnknownService")
    ELSE [rec EXCEPT !.pc = "build"]

StartCheckResult(rec) ==
    IF contains_key(rec.name) THEN Finish(rec, "AlreadyRunning")
    ELSE IF rec.root = "" THEN Finish(rec, "InvalidEnvironment")
    ELSE IF rec.root = "missing" THEN Finish(rec, "InvalidEnvironment")
    ELSE IF ~get_service_paths_ok(rec.name) THEN Finish(rec, "UnknownService")
    ELSE IF ~rec.projOk THEN Finish(rec, "InvalidEnvironment")
    ELSE [rec EXCEPT !.pc = "build"]

\* the command is invoked and runs up to its build step (lifecycle.rs:89-126)
StartCheck(c) ==
    /\ Quiet
    /\ lock = Unlocked /\ lock' = DropGuard(c)
    /\ UNCHANGED notLifecycle
    /\ FreeTask(c)
    /\ calls' = calls + 1
    /\ UNCHANGED <<services, proc, nextPid>>
    /\ \E in \in Inputs :
          Step(c, StartCheckResult(NewCall("start", in[1], in[2], in[3])), call)

\* helpers.rs:160-186 build_service awaited at lifecycle.rs:129: the build
\* tool cannot be spawned, exits non-zero, or succeeds
\* a start_service that does not look at the exit status of the build
StartBuildIgnoresExit(rec, outcome) ==
    IF outcome = "nospawn" THEN Finish([rec EXCEPT !.build = outcome], "BuildFailed")
    ELSE [rec EXCEPT !.pc = "spawn", !.build = outcome]

StartBuildResult(rec, outcome) ==
    IF outcome = "ok" THEN [rec EXCEPT !.pc = "spawn", !.build = outcome]
    ELSE Finish([rec EXCEPT !.build = outcome], "BuildFailed")

StartBuild(c) ==
    /\ Quiet
    /\ UNCHANGED lock
    /\ UNCHANGED notLifecycle
    /\ UNCHANGED calls
    /\ call[c].op = "start" /\ call[c].pc = "build"
    /\ UNCHANGED <<services, proc, nextPid>>
    /\ \E outcome \in BuildOutcomes :
          Step(c, StartBuildResult(call[c], outcome), call)

\* lifecycle.rs:132-140  spawn `dotnet run`; child.id() of a child that
\* has not been waited for is its process identifier
StartSpawn(c) ==
    /\ Quiet
    /\ UNCHANGED lock
    /\ UNCHANGED notLifecycle
    /\ UNCHANGED calls
    /\ call[c].op = "start" /\ call[c].pc = "spawn"
    /\ UNCHANGED services
    /\ \/ /\ nextPid \in ProcIds
          /\ Step(c, [call[c] EXCEPT !.pc = "insert", !.child = nextPid,
                                     !.pid = nextPid, !.spawned = TRUE], call)
          /\ proc' = [proc EXCEPT ![nextPid] =
                        [state |-> "alive", name |-> call[c].name, reaper |-> "none"]]
          /\ nextPid' = nextPid + 1
       \/ /\ Step(c, Finish(call[c], "SpawnFailed"), call)
          /\ UNCHANGED <<proc, nextPid>>

\* an insert that drops the records of the other services
InsertClearsOthers(m, n, rec) == [k \in Names |-> IF k = n THEN rec ELSE NoRec]

\* lifecycle.rs:153-156  services_guard.insert(service_name, service_info)
StartInsertMap(m, n, rec) == MapInsert(m, n, rec)

\* lifecycle.rs:146-181  insert the record under the lock, detach the reaper
\* task that owns the child, return the status
StartInsert(c) ==
    /\ Quiet
    /\ lock = Unlocked /\ lock' = DropGuard(c)
    /\ UNCHANGED notLifecycle
    /\ UNCHANGED calls
    /\ call[c].op = "start" /\ call[c].pc = "insert"
    /\ services' = StartInsertMap(services, call[c].name,
                                  ServiceInfo(call[c].name, call[c].pid, call[c].child))
    /\ proc' = [proc EXCEPT ![call[c].child].reaper = "waiting"]
    /\ Step(c, Finish([call[c] EXCEPT !.inserted = TRUE,
                                    !.overwrote = contains_key(call[c].name)], "Ok"),
            NoteInsert(call, call[c].name))
    /\ UNCHANGED nextPid

(* ------------------------ processes and reaper ------------------------ *)

\* a run process exits on its own
ProcExit(p) ==
    /\ Quiet
    /\ UNCHANGED lock
    /\ UNCHANGED notLifecycle
    /\ proc[p].state = "alive"
    /\ proc' = [proc EXCEPT ![p].state = "dead"]
    /\ UNCHANGED <<services, call, nextPid, calls, ret>>

\* a reaper that leaves the record in the map
ReaperKeepsRecord(m, p) == m

\* lifecycle.rs:166-168  guard.remove(&service_name_clone)
ReaperRemove(m, p) == MapRemove(m, proc[p].name)

\* lifecycle.rs:163-169  the detached task: child.wait() returned, remove
\* the record of the service name
Reaper(p) ==
    /\ Quiet
    /\ lock = Unlocked /\ lock' = DropGuard(ReaperTask)
    /\ UNCHANGED notLifecycle
    /\ proc[p].reaper = "waiting"
    /\ proc[p].state = "dead"
    /\ services' = ReaperRemove(services, p)
    /\ proc' = [proc EXCEPT ![p] = Reaped]
    /\ UNCHANGED <<call, nextPid, calls, ret>>

(* ---------------------------- termination ----------------------------- *)

\* helpers.rs:40-70 kill_process_by_pid: the kill command either ends the
\* process or fails; its result is discarded
kill_process_by_pid(ps, pid, killed) ==
    IF killed /\ pid \in ProcIds /\ ps[pid].state = "alive"
    THEN [ps EXCEPT ![pid].state = "dead"] ELSE ps

\* run processes that may own a port: the live processes of the service
\* that binds it
PortOwners(port) ==
    {p \in ProcIds : proc[p].state = "alive" /\ ServicePort(proc[p].name) = port}

\* helpers.rs:73-84 kill_process_by_port: ends the process owning the port
\* on Windows (victim), does nothing on other targets (victim = 0)
kill_process_by_port(ps, victim) ==
    IF victim \in ProcIds THEN [ps EXCEPT ![victim].state = "dead"] ELSE ps

\* the kill a record calls for: by pid when one was captured, by port
\* otherwise (helpers.rs:88-95, lifecycle.rs:58-62)
KillAttempt(n, pid, port) ==
    IF pid # NoPid THEN [kind |-> "pid", name |-> n, arg |-> pid]
    ELSE [kind |-> "port", name |-> n, arg |-> port]

\* helpers.rs:87-96 stop_service_process / lifecycle.rs:58-62: the
\* processes after the attempt
KillOutcomes(pid, port) ==
    IF pid # NoPid
    THEN {kill_process_by_pid(proc, pid, k) : k \in BOOLEAN}
    ELSE {kill_process_by_port(proc, v) : v \in PortOwners(port) \cup {0}}

(* ---------------------------- stop_service ---------------------------- *)

\* a stop_service that leaves the record in the map
StopKeepsRecord(m, n) == m

\* lifecycle.rs:201  services_guard.remove(&service_name)
StopRemoveMap(m, n) == MapRemove(m, n)

\* a stop_service that goes on to the kill when there is no record
StopRemoveNoCheck(rec) ==
    [rec EXCEPT !.pc = "kill",
                !.info = IF contains_key(rec.name) THEN services[rec.name] ELSE NoRec]

\* lifecycle.rs:199-208  the removed record is kept for the kill; without
\* one the call fails
StopRemoveResult(rec) ==
    IF contains_key(rec.name)
    THEN [rec EXCEPT !.pc = "kill", !.info = services[rec.name]]
    ELSE Finish(rec, "NotRunning")

\* lifecycle.rs:186-208  the command is invoked; under the lock it removes
\* the record and keeps it, or fails when there is none
StopRemove(c) ==
    /\ Quiet
    /\ lock = Unlocked /\ lock' = DropGuard(c)
    /\ UNCHANGED notLifecycle
    /\ FreeTask(c)
    /\ calls' = calls + 1
    /\ \E n \in Names \cup {UnknownName} :
          /\ services' = StopRemoveMap(services, n)
          /\ Step(c, StopRemoveResult(NewCall("stop", n, "", FALSE)), call)
    /\ UNCHANGED <<proc, nextPid>>

\* lifecycle.rs:210-214  stop_service_process(&service_info).await, then Ok
StopKill(c) ==
    /\ Quiet
    /\ UNCHANGED lock
    /\ UNCHANGED notLifecycle
    /\ UNCHANGED calls
    /\ call[c].op = "stop" /\ call[c].pc = "kill"
    /\ UNCHANGED <<services, nextPid>>
    /\ proc' \in KillOutcomes(call[c].info.pid, call[c].info.port)
    /\ Step(c, Finish([call[c] EXCEPT !.kills = Append(@,
                  KillAttempt(call[c].info.name, call[c].info.pid, call[c].info.port))],
                  "Ok"), call)

(* -------------------------- prebuild_service -------------------------- *)

\* lifecycle.rs:39-47  the running services, in the order of all_services
RECURSIVE Collect(_, _)
Collect(m, i) ==
    IF i > Len(AllServices) THEN <<>>
    ELSE LET n == AllServices[i]
             rest == Collect(m, i + 1)
         IN IF m[n] # NoRec
            THEN <<[name |-> n, pid |-> m[n].pid, port |-> m[n].port]>> \o rest
            ELSE rest

\* a prebuild_service that does not look at the repository root
PrebuildCollectNoRootCheck(rec) ==
    LET running == Collect(services, 1)
    IN [rec EXCEPT !.toStop = running, !.idx = 1,
                   !.found = {running[i].name : i \in 1..Len(running)},
                   !.pc = IF running = <<>> THEN "paths" ELSE "stop_remove"]

\* lifecycle.rs:26-47  the checks of the repository root, then the
\* collection of the services to stop under the lock
PrebuildCollectResult(rec) ==
    IF rec.root = "" THEN Finish(rec, "InvalidEnvironment")
    ELSE IF rec.root = "missing" THEN Finish(rec, "InvalidEnvironment")
    ELSE LET running == Collect(services, 1)
         IN [rec EXCEPT !.toStop = running, !.idx = 1,
                        !.found = {running[i].name : i \in 1..Len(running)},
                        !.pc = IF running = <<>> THEN "paths" ELSE "stop_remove"]

\* the command is invoked and runs up to its stop loop (lifecycle.rs:20-47).
\* Its service name is not read before line 70: it is drawn there.
PrebuildCollect(c) ==
    /\ Quiet
    /\ lock = Unlocked /\ lock' = DropGuard(c)
    /\ UNCHANGED notLifecycle
    /\ FreeTask(c)
    /\ calls' = calls + 1
    /\ UNCHANGED <<services, proc, nextPid>>
    /\ \E root \in Roots :
          Step(c, PrebuildCollectResult(NewCall("prebuild", "none", root, FALSE)), call)

\* a prebuild_service that leaves the records in the map
PrebuildKeepsRecord(m, n) == m

\* a stop loop that removes the records of the other services
PrebuildRemovesOthers(m, n) == [k \in Names |-> IF k = n THEN m[k] ELSE NoRec]

\* lifecycle.rs:54  services_guard.remove(svc_name)
PrebuildRemoveMap(m, n) == MapRemove(m, n)

\* lifecycle.rs:51-55  one round of the stop loop: remove under the lock
PrebuildRemove(c) ==
    /\ Quiet
    /\ lock = Unlocked /\ lock' = DropGuard(c)
    /\ UNCHANGED notLifecycle
    /\ UNCHANGED calls
    /\ call[c].op = "prebuild" /\ call[c].pc = "stop_remove"
    /\ LET n == call[c].toStop[call[c].idx].name
       IN /\ services' = PrebuildRemoveMap(services, n)
          /\ Step(c, [call[c] EXCEPT !.pc = "stop_kill"],
                  call)
    /\ UNCHANGED <<proc, nextPid>>

\* lifecycle.rs:57-62  one round of the stop loop: the kill, by the pid and
\* port collected before the loop
PrebuildKill(c) ==
    /\ Quiet
    /\ UNCHANGED lock
    /\ UNCHANGED notLifecycle
    /\ UNCHANGED calls
    /\ call[c].op = "prebuild" /\ call[c].pc = "stop_kill"
    /\ UNCHANGED <<services, nextPid>>
    /\ LET e == call[c].toStop[call[c].idx]
       IN /\ proc' \in KillOutcomes(e.pid, e.port)
          /\ Step(c, IF call[c].idx = Len(call[c].toStop)
                     THEN [call[c] EXCEPT
                             !.kills = Append(@, KillAttempt(e.name, e.pid, e.port)),
                             !.toStop = <<>>, !.idx = 1, !.pc = "paths"]
                     ELSE [call[c] EXCEPT
                             !.kills = Append(@, KillAttempt(e.name, e.pid, e.port)),
                             !.idx = @ + 1, !.pc = "stop_remove"], call)

\* lifecycle.rs:65-82  after the settle delays: resolve the service, check
\* its project directory, and begin the build
PrebuildPathsResult(rec) ==
    IF ~get_service_paths_ok(rec.name) THEN Finish(rec, "UnknownService")
    ELSE IF ~rec.projOk THEN Finish(rec, "InvalidEnvironment")
    ELSE [rec EXCEPT !.pc = "build", !.name = "none"]

PrebuildPaths(c) ==
    /\ Quiet
    /\ UNCHANGED lock
    /\ UNCHANGED notLifecycle
    /\ UNCHANGED calls
    /\ call[c].op = "prebuild" /\ call[c].pc = "paths"
    /\ UNCHANGED <<services, proc, nextPid>>
    /\ \E in \in Inputs :
          /\ in[2] = call[c].root
          /\ Step(c, PrebuildPathsResult([call[c] EXCEPT !.name = in[1],
                                                         !.projOk = in[3]]), call)

\* lifecycle.rs:82-84  build_service(...).await?; Ok(())
PrebuildBuildResult(rec, outcome) ==
    IF outcome = "ok" THEN Finish([rec EXCEPT !.build = outcome], "Ok")
    ELSE Finish([rec EXCEPT !.build = outcome], "BuildFailed")

PrebuildBuild(c) ==
    /\ Quiet
    /\ UNCHANGED lock
    /\ UNCHANGED notLifecycle
    /\ UNCHANGED calls
    /\ call[c].op = "prebuild" /\ call[c].pc = "build"
    /\ UNCHANGED <<services, proc, nextPid>>
    /\ \E outcome \in BuildOutcomes, n \in Names :
          Step(c, PrebuildBuildResult([call[c] EXCEPT !.name = n], outcome), call)

(* ------------------------- get_service_status ------------------------- *)

\* status.rs:26-31  the entry pushed for a service found running
ServiceStatus(rec) ==
    [name |-> rec.name, running |-> TRUE, port |-> rec.port, url |-> rec.url]

\* a probe that trusts the registry: every pid is reported as running
ProbeTrustsRegistry(pid) == TRUE

\* status.rs:19-23  the liveness probe of one record
StatusProbeRecord(pid) == is_process_running(pid)

\* status.rs:16-33  the entries collected by the loop over the map
StatusEntries ==
    {ServiceStatus(services[n]) :
        n \in {m \in Names : /\ services[m] # NoRec
                              /\ services[m].pid # NoPid
                              /\ StatusProbeRecord(services[m].pid)}}

\* status.rs:11-14  the command is invoked and takes the lock; the guard
\* lives until the function returns
StatusLock(c) ==
    /\ Quiet
    /\ FreeTask(c)
    /\ lock = Unlocked /\ lock' = c
    /\ calls' = calls + 1
    /\ UNCHANGED <<services, proc, nextPid>>
    /\ UNCHANGED notLifecycle
    /\ Step(c, [NewCall("status", "none", "", FALSE) EXCEPT !.pc = "probe"], call)

\* status.rs:16-36  the loop probes the process of every record with the
\* guard still alive, then the function returns and the guard is dropped
StatusProbe(c) ==
    /\ Quiet
    /\ call[c].op = "status" /\ call[c].pc = "probe"
    /\ lock = c /\ lock' = Unlocked
    /\ UNCHANGED <<services, proc, nextPid, calls>>
    /\ UNCHANGED notLifecycle
    /\ Step(c, Finish([call[c] EXCEPT !.listed = StatusEntries], "Ok"), call)

(* ------------------------ stop_service_process ------------------------ *)

\* helpers.rs:48  for _ in 0..50
PollBudget == 50

\* a poll loop whose counter does not advance
PollStuck(i) == i

\* helpers.rs:48  the loop counter after one more iteration
PollAdvance(i) == i + 1

KillInit ==
    /\ target \in {"windows", "other"}
    /\ info \in {ServiceInfo(n, pid, pid) : n \in Names, pid \in {NoPid} \cup ProcIds}
    /\ kpc = "start"
    /\ polls = 0
    /\ cmds = <<>>
    /\ procUp \in BOOLEAN

\* helpers.rs:88-89, 40-46, 63-68  the record holds a pid: taskkill /F /PID
\* or kill -9, whose result is discarded; the command may leave the process
\* running
KillByPid ==
    /\ kpc = "start" /\ info.pid # NoPid
    /\ cmds' = Append(cmds, KillAttempt(info.name, info.pid, info.port))
    /\ procUp' \in {procUp, FALSE}
    /\ kpc' = IF target = "windows" THEN "poll" ELSE "settle"
    /\ UNCHANGED <<target, info, polls>>
    /\ UNCHANGED notKill

\* helpers.rs:47-60  one iteration of the poll loop: leave it when tasklist
\* ran and no longer shows the pid, sleep 100 ms otherwise; the loop ends
\* after PollBudget iterations
KillPoll ==
    /\ kpc = "poll"
    /\ IF polls = PollBudget
       THEN kpc' = "settle" /\ UNCHANGED polls
       ELSE \E checkOk \in BOOLEAN :
               IF checkOk /\ ~procUp
               THEN kpc' = "settle" /\ UNCHANGED polls
               ELSE polls' = PollAdvance(polls) /\ UNCHANGED kpc
    /\ UNCHANGED <<target, info, cmds, procUp>>
    /\ UNCHANGED notKill

\* helpers.rs:92-94, 73-84  the record holds no pid: on Windows the owner
\* of the port is stopped through powershell; on other targets the function
\* body is empty
KillByPort ==
    /\ kpc = "start" /\ info.pid = NoPid
    /\ IF target = "windows"
       THEN /\ cmds' = Append(cmds, KillAttempt(info.name, info.pid, info.port))
            /\ procUp' \in {procUp, FALSE}
       ELSE UNCHANGED <<cmds, procUp>>
    /\ kpc' = "done"
    /\ UNCHANGED <<target, info, polls>>
    /\ UNCHANGED notKill

\* helpers.rs:68, 91  the settle sleeps after the kill by pid, then return
KillSettle ==
    /\ kpc = "settle"
    /\ kpc' = "done"
    /\ UNCHANGED <<target, info, polls, cmds, procUp>>
    /\ UNCHANGED notKill

\* the process exits by itself while the call is under way
KillProcessExits ==
    /\ kpc \in {"start", "poll", "settle"}
    /\ procUp
    /\ procUp' = FALSE
    /\ UNCHANGED <<target, info, kpc, polls, cmds>>
    /\ UNCHANGED notKill

(* --------------------- RateLimiter::wait_if_needed -------------------- *)

\* SystemTime::now().duration_since(UNIX_EPOCH).as_secs()
Now == Timeline[instant]

\* u64::saturating_sub
SatSub(a, b) == IF a > b THEN a - b ELSE 0

\* rate_limit.rs:46, 80  timestamps.retain(|&ts| ts > cutoff)
Retain(ts, cutoff) == SelectSeq(ts, LAMBDA t : t > cutoff)

\* a wait that ends one second early
WaitTooShort(now, oldest) == (Window - 1) - (now - oldest)

\* rate_limit.rs:51  60 - (now - oldest_request) in wrapping u64 arithmetic:
\* when oldest_request > now both subtractions wrap and the two wraps
\* cancel, so the result is the integer 60 + (oldest_request - now)
WaitFor(now, oldest) == Window - (now - oldest)

\* rate_limit.rs:51  now - oldest_request overflows u64
Overflows(now, oldest) == oldest > now

\* rate_limit.rs:63  the guard of the block is dropped
RlDropGuard(h) == RlUnlocked

RlInFlight(c) == rl[c].pc \in {"check", "sleep", "record"}

\* callers are interchangeable: a new call is made by the first one that
\* has no call under way
RlFree(c) ==
    /\ rcalls < MaxRlCalls
    /\ ~RlInFlight(c) /\ \A d \in RlCallers : d < c => RlInFlight(d)

RateInit ==
    /\ instant = 1
    /\ limitOf \in [RlServices -> Limits]
    /\ requests = [s \in RlServices |-> NoWindow]
    /\ rlock = RlUnlocked
    /\ rl = [c \in RlCallers |-> RlIdle]
    /\ rcalls = 0
    /\ overlapped = FALSE

\* time passes
Tick ==
    /\ instant < Len(Timeline)
    /\ instant' = instant + 1
    /\ UNCHANGED <<limitOf, requests, rlock, rl, rcalls, overlapped>>
    /\ UNCHANGED notRate

\* a wait_if_needed that does not look at the configuration
RlBeginAlwaysOn(rec) == [rec EXCEPT !.pc = "check", !.now = Now]

\* rate_limit.rs:28-38  return at once when rate limiting is disabled,
\* read the clock otherwise
RlBeginResult(rec) ==
    IF ~rec.enabled THEN [rec EXCEPT !.pc = "done"]
    ELSE [rec EXCEPT !.pc = "check", !.now = Now]

\* wait_if_needed(service, limitOf[service]) is called; the configuration
\* is loaded afresh by every call
RlBegin(c) ==
    /\ RlFree(c)
    /\ rcalls' = rcalls + 1
    /\ \E s \in RlServices, en \in BOOLEAN :
          /\ rl' = [rl EXCEPT ![c] =
                      RlBeginResult([RlIdle EXCEPT !.service = s, !.enabled = en])]
          /\ overlapped' = (overlapped \/ (en /\ \E d \in RlCallers : RlInFlight(d)))
    /\ UNCHANGED <<instant, limitOf, requests, rlock>>
    /\ UNCHANGED notRate

\* the call ended in a panic
RlPanicked(rec) == [rec EXCEPT !.pc = "panicked", !.now = 0, !.wait = 0, !.wake = 0]

\* rate_limit.rs:45-62  the window after the first retain
RlCheckWindow(w, now) ==
    IF w.present THEN [w EXCEPT !.ts = Retain(w.ts, SatSub(now, Window))] ELSE w

\* rate_limit.rs:49-50  the limit is reached: the oldest request
RlOldest(w, now) == IF w.ts = <<>> THEN now ELSE w.ts[1]

\* rate_limit.rs:41-63  under the lock: prune the window by the clock read
\* before, and decide whether and how long to wait.  checked: the build
\* has overflow checks (the debug profile), so an overflow panics
RlCheckResult(rec, w, limit, checked) ==
    IF ~w.present \/ Len(w.ts) < limit THEN [rec EXCEPT !.pc = "record"]
    ELSE IF Overflows(rec.now, RlOldest(w, rec.now)) /\ checked
         THEN RlPanicked(rec)
    ELSE LET wait == WaitFor(rec.now, RlOldest(w, rec.now))
         IN IF wait > 0
            THEN [rec EXCEPT !.pc = "sleep", !.wait = wait, !.wake = Now + wait]
            ELSE [rec EXCEPT !.pc = "record"]

RlCheck(c) ==
    /\ rl[c].pc = "check"
    /\ rlock # c
    /\ IF rlock = RlPoisoned
       THEN \* lock().unwrap() on a poisoned mutex panics
            /\ rl' = [rl EXCEPT ![c] = RlPanicked(rl[c])]
            /\ UNCHANGED <<requests, rlock>>
       ELSE /\ rlock = RlUnlocked
            /\ \E checked \in BOOLEAN :
                 LET w == RlCheckWindow(requests[rl[c].service], rl[c].now)
                     res == RlCheckResult(rl[c], w, limitOf[rl[c].service], checked)
                 IN /\ requests' = [requests EXCEPT ![rl[c].service] = w]
                    /\ rl' = [rl EXCEPT ![c] = res]
                    /\ rlock' = IF res.pc = "panicked" THEN RlPoisoned
                                                      ELSE RlDropGuard(c)
    /\ UNCHANGED <<instant, limitOf, rcalls, overlapped>>
    /\ UNCHANGED notRate

\* rate_limit.rs:77-85  re-prune by the clock read under the lock and
\* append it; a service without entry gets its first one
RlRecordWindow(w, now) ==
    [present |-> TRUE,
     ts |-> IF w.present THEN Append(Retain(w.ts, SatSub(now, Window)), now)
                         ELSE <<now>>]

\* the call has returned: of its locals only the service, the enabled flag
\* and the wait it made are remembered
RlReturned(rec) == [rec EXCEPT !.pc = "done", !.now = 0, !.wake = 0]

\* rate_limit.rs:66-86  once the sleep (if any) is over: take the lock
\* again, read the clock, record the request and return
RlRecord(c) ==
    /\ \/ rl[c].pc = "record"
       \/ rl[c].pc = "sleep" /\ Now >= rl[c].wake
    /\ rlock # c
    /\ IF rlock = RlPoisoned
       THEN /\ rl' = [rl EXCEPT ![c] = RlPanicked(rl[c])]
            /\ UNCHANGED <<requests, rlock>>
       ELSE /\ rlock = RlUnlocked
            /\ requests' = [requests EXCEPT ![rl[c].service] = RlRecordWindow(@, Now)]
            /\ rl' = [rl EXCEPT ![c] = RlReturned(rl[c])]
            /\ UNCHANGED rlock
    /\ UNCHANGED <<instant, limitOf, rcalls, overlapped>>
    /\ UNCHANGED notRate

(* ----------------------------- StringCache ---------------------------- *)

\* an entry that is dead from its expiry on
ExpiredAtDeadline(e, now) == now >= e.expires_at

\* cache.rs:29-31  CacheEntry::is_expired
is_expired(e, now) == now > e.expires_at

\* cache.rs:24-27  CacheEntry::new
NewEntry(data, ttl_seconds, now) ==
    [present |-> TRUE, data |-> data, expires_at |-> now + ttl_seconds]

\* a get that purges nothing
RetainAll(es, now) == es

\* cache.rs:59  entries.retain(|_, entry| !entry.is_expired())
RetainLive(es, now) ==
    [k \in Keys |-> IF es[k].present /\ is_expired(es[k], now) THEN NoEntry
                    ELSE es[k]]

\* a removal that leaves the map as it is
RemoveNothing(es, key) == es

\* cache.rs:63, 84  entries.remove(key)
RemoveKey(es, key) == [es EXCEPT ![key] = NoEntry]

\* an insert that keeps the entry a key already has
InsertIfAbsent(es, key, e) == IF es[key].present THEN es ELSE [es EXCEPT ![key] = e]

\* cache.rs:78  entries.insert(key, entry)
InsertEntry(es, key, e) == [es EXCEPT ![key] = e]

\* cache.rs:56-68  get with caching enabled: the map it leaves
GetEntries(es, key, now) ==
    LET kept == RetainLive(es, now)
    IN IF kept[key].present /\ is_expired(kept[key], now)
       THEN RemoveKey(kept, key)
       ELSE kept

\* cache.rs:56-68  get with caching enabled: the value it returns
GetValue(es, key, now) ==
    LET kept == RetainLive(es, now)
    IN IF ~kept[key].present THEN Miss
       ELSE IF is_expired(kept[key], now) THEN Miss
       ELSE kept[key].data

\* a set that does not look at the configuration
StoresAlways(enabled) == TRUE

\* cache.rs:71-74  set returns at once when caching is disabled
Stores(enabled) == enabled

\* the clock advances by a second
CacheTick ==
    /\ clock < MaxCacheTime
    /\ clock' = clock + 1
    /\ UNCHANGED <<entries, cops, last, lastSet, prevExp, unstored>>
    /\ UNCHANGED notCache

\* cache.rs:50-68  get(key); the configuration is loaded by every call
CacheGet ==
    /\ cops < MaxCacheOps
    /\ cops' = cops + 1
    /\ \E key \in Keys, enabled \in BOOLEAN :
          /\ entries' = IF enabled THEN GetEntries(entries, key, clock) ELSE entries
          /\ last' = [NoOp EXCEPT !.op = "get", !.key = key, !.enabled = enabled,
                                  !.at = clock,
                                  !.result = IF enabled
                                             THEN GetValue(entries, key, clock)
                                             ELSE Miss]
    /\ UNCHANGED <<clock, lastSet, prevExp, unstored>>
    /\ UNCHANGED notCache

\* cache.rs:70-80  set(key, value, ttl_seconds)
CacheSet ==
    /\ cops < MaxCacheOps
    /\ cops' = cops + 1
    /\ \E key \in Keys, ttl \in 0..MaxTtl, enabled \in BOOLEAN :
          LET value == cops + 1
          IN /\ entries' = IF Stores(enabled)
                           THEN InsertEntry(entries, key, NewEntry(value, ttl, clock))
                           ELSE entries
             /\ last' = [NoOp EXCEPT !.op = "set", !.key = key, !.enabled = enabled,
                                     !.at = clock, !.ttl = ttl, !.value = value]
             /\ lastSet' = IF enabled
                           THEN [lastSet EXCEPT ![key] =
                                    [made |-> TRUE, value |-> value,
                                     at |-> clock, ttl |-> ttl]]
                           ELSE lastSet
             /\ prevExp' = IF enabled
                           THEN [prevExp EXCEPT ![key] =
                                    IF lastSet[key].made
                                    THEN lastSet[key].at + lastSet[key].ttl
                                    ELSE NoExpiry]
                           ELSE prevExp
             /\ unstored' = IF enabled THEN unstored ELSE unstored \cup {<<key, value>>}
    /\ UNCHANGED clock
    /\ UNCHANGED notCache

\* cache.rs:82-87  invalidate(key): the configuration is not read
CacheInvalidate ==
    /\ cops < MaxCacheOps
    /\ cops' = cops + 1
    /\ \E key \in Keys, enabled \in BOOLEAN :
          /\ entries' = RemoveKey(entries, key)
          /\ last' = [NoOp EXCEPT !.op = "invalidate", !.key = key,
                                  !.enabled = enabled, !.at = clock,
                                  \* cache.rs:84  the entry remove() hands back
                                  !.result = entries[key].data]
          /\ lastSet' = [lastSet EXCEPT ![key] = NoSet]
          /\ prevExp' = [prevExp EXCEPT ![key] = NoExpiry]
    /\ UNCHANGED <<clock, unstored>>
    /\ UNCHANGED notCache

\* cache.rs:89-93  clear()
CacheClear ==
    /\ cops < MaxCacheOps
    /\ cops' = cops + 1
    /\ \E enabled \in BOOLEAN :
          last' = [NoOp EXCEPT !.op = "clear", !.enabled = enabled, !.at = clock]
    /\ entries' = [k \in Keys |-> NoEntry]
    /\ lastSet' = [k \in Keys |-> NoSet]
    /\ prevExp' = [k \in Keys |-> NoExpiry]
    /\ UNCHANGED <<clock, unstored>>
    /\ UNCHANGED notCache

(* ------------------------------- retry -------------------------------- *)

\* retry.rs:95  error_msg.to_lowercase(), word by word
LowerWord(w) ==
    CASE w = "Connection" -> "connection"
      [] w = "GitHub" -> "github"
      [] w = "Rate" -> "rate"
      [] w = "Limit" -> "limit"
      [] w = "Resource" -> "resource"
      [] OTHER -> w

to_lowercase(msg) == [i \in 1..Len(msg) |-> LowerWord(msg[i])]

\* retry.rs:83-93  retryable_patterns
retryable_patterns ==
    {<<"network">>, <<"timeout">>, <<"temporarily">>, <<"rate", "limit">>,
     <<"503">>, <<"502">>, <<"500">>, <<"connection">>, <<"refused">>}

\* str::contains on messages made of words
contains(msg, pattern) ==
    \E i \in 1..(Len(msg) - Len(pattern) + 1) :
        SubSeq(msg, i, i + Len(pattern) - 1) = pattern

\* retry.rs:82-97
is_retryable_error(error_msg) ==
    \E pattern \in retryable_patterns : contains(to_lowercase(error_msg), pattern)

\* what one invocation of the operation may return
Outcomes == {OkResult} \cup ErrMsgs

\* a retry function that never takes the single-invocation path
RetriesNeverDisabled(enabled) == FALSE

\* retry.rs:44, 111  if !config.retry.enabled
RetriesDisabled(enabled) == ~enabled

\* a loop that allows one failure more
ExhaustedLate(n, p) == n > p.max_retries

\* retry.rs:61, 133  if attempt >= policy.max_retries
Exhausted(n, p) == n >= p.max_retries

\* a loop that asks no classifier
NeverGivesUp(v, e) == FALSE

\* retry.rs:128  if !is_retryable_error(&e), in retry_on_retryable_error only
GivesUp(v, e) == v = "classified" /\ ~is_retryable_error(e)

\* `as u64` of the non-negative product num / den: the fraction is cut off
AsU64(num, den) == num \div den

MinOf(a, b) == IF a <= b THEN a ELSE b

\* a backoff without the cap
UncappedBackoff(b, p) == AsU64(b * p.multiplier[1], p.multiplier[2])

\* retry.rs:74-75, 145-146  the backoff after a sleep of b milliseconds
NextBackoff(b, p) ==
    MinOf(AsU64(b * p.multiplier[1], p.multiplier[2]), p.max_backoff_ms)

\* retry.rs:41-50, 108-116  a retry function is called: the policy is the
\* one passed, the configuration is loaded, the locals are initialised
RetryBegin ==
    /\ rpc = "idle"
    /\ \E v \in {"plain", "classified"}, en \in BOOLEAN, p \in Policies :
          /\ variant' = v
          /\ renabled' = en
          /\ policy' = p
          /\ backoff_ms' = IF RetriesDisabled(en) THEN 0 ELSE p.initial_backoff_ms
          /\ rpc' = IF RetriesDisabled(en) THEN "once" ELSE "invoke"
    /\ attempt' = 0
    /\ UNCHANGED <<outcomes, sleeps, rresult>>
    /\ UNCHANGED notRetry

\* retry.rs:46, 112  return operation().await
RetryOnce ==
    /\ rpc = "once"
    /\ \E out \in Outcomes :
          /\ outcomes' = Append(outcomes, out)
          /\ rresult' = out
    /\ rpc' = "done"
    /\ UNCHANGED <<variant, renabled, policy, attempt, backoff_ms, sleeps>>
    /\ UNCHANGED notRetry

\* retry.rs:53-71, 119-142  one invocation of the operation and the match
\* on its result, up to the start of the sleep
RetryInvoke ==
    /\ rpc = "invoke"
    /\ \E out \in Outcomes :
          /\ outcomes' = Append(outcomes, out)
          /\ IF out = OkResult \/ GivesUp(variant, out) \/ Exhausted(attempt, policy)
             THEN /\ rresult' = out
                  /\ rpc' = "done"
                  /\ UNCHANGED <<attempt, sleeps>>
             ELSE /\ attempt' = attempt + 1
                  /\ sleeps' = Append(sleeps, backoff_ms)
                  /\ rpc' = "sleep"
                  /\ UNCHANGED rresult
    /\ UNCHANGED <<variant, renabled, policy, backoff_ms>>
    /\ UNCHANGED notRetry

\* retry.rs:71-75, 142-146  the sleep is over: the next backoff is computed
RetrySleep ==
    /\ rpc = "sleep"
    /\ backoff_ms' = NextBackoff(backoff_ms, policy)
    /\ rpc' = "invoke"
    /\ UNCHANGED <<variant, renabled, policy, attempt, outcomes, sleeps, rresult>>
    /\ UNCHANGED notRetry

(* ------------------------ setup_log_streaming ------------------------- *)

\* a streaming task that ends at the first event it cannot publish
StopOnEmitError(ok) == IF ok THEN "read" ELSE "ended"

\* helpers.rs:115, 141  let _ = emit_all(..): whatever emit_all returned,
\* the loop goes on to the next next_line()
AfterEmit(ok) == "read"

\* helpers.rs:178-185  build_service waits for the child and fails on a
\* non-zero exit; lifecycle.rs:172  start_service does not wait
StepResultOf(src, exit) ==
    IF src = "build" /\ exit = "failure" THEN "Err" ELSE "Ok"

\* a task that publishes every line it read twice
PublishTwice(events, e) == Append(Append(events, e), e)

\* helpers.rs:115-127, 141-153  one emit_all("service-log", ..) call
Publish(events, e) == Append(events, e)

\* helpers.rs:117-126, 143-152  the payload of the event of a line; the
\* message is the line, which its index in the stream stands for
LogEvent(service, stream, src, i) ==
    [service |-> service, type |-> stream, source |-> src, message |-> i]

\* a child was spawned with both streams piped and setup_log_streaming has
\* spawned one task per stream
LogInit ==
    /\ pipe \in [Streams -> PipeContents]
    /\ lpc = [s \in Streams |-> "read"]
    /\ line = [s \in Streams |-> 0]
    /\ delivered = <<>>
    /\ dropped = {}
    /\ source \in {"build", "run"}
    /\ exited = "running"
    /\ stepResult = "pending"
    /\ logService \in Names
    /\ published = <<>>

\* helpers.rs:114-128, 140-154  one turn of the loop of the task of stream
\* s: next_line() gives a line, which is published (the sink takes it or
\* emit_all fails), or gives None or an error, which ends the loop
LogLine(s) ==
    /\ lpc[s] = "read"
    /\ IF pipe[s] = <<>> \/ Head(pipe[s]) = "unreadable"
       THEN /\ lpc' = [lpc EXCEPT ![s] = "ended"]
            /\ UNCHANGED <<pipe, line, delivered, dropped, published>>
       ELSE /\ pipe' = [pipe EXCEPT ![s] = Tail(@)]
            /\ line' = [line EXCEPT ![s] = @ + 1]
            /\ published' = Publish(published,
                                   LogEvent(logService, s, source, line[s] + 1))
            /\ \E ok \in BOOLEAN :
                  /\ delivered' = IF ok THEN Append(delivered, <<s, line[s] + 1>>)
                                        ELSE delivered
                  /\ dropped' = IF ok THEN dropped
                                      ELSE dropped \cup {<<s, line[s] + 1>>}
                  /\ lpc' = [lpc EXCEPT ![s] = AfterEmit(ok)]
    /\ UNCHANGED <<source, exited, stepResult, logService>>
    /\ UNCHANGED notLog

\* the child exits
ChildExit ==
    /\ exited = "running"
    /\ exited' \in {"success", "failure"}
    /\ UNCHANGED <<pipe, lpc, line, delivered, dropped, source, stepResult,
                   logService, published>>
    /\ UNCHANGED notLog

\* the step that spawned the child returns
StepReturn ==
    /\ stepResult = "pending"
    /\ source = "build" => exited # "running"
    /\ stepResult' = StepResultOf(source, exited)
    /\ UNCHANGED <<pipe, lpc, line, delivered, dropped, source, exited,
                   logService, published>>
    /\ UNCHANGED notLog

(* ------------------------ check_service_health ------------------------ *)

\* http::StatusCode::is_success
is_success(status) == 200 <= status /\ status < 300

\* a health check that hands a failed request on as an error
HealthSendFailureIsErr(cond) ==
    IF cond.net # "answers" \/ cond.delay >= HealthTimeout THEN "Err"
    ELSE IF is_success(cond.status) THEN "true" ELSE "false"

\* status.rs:48-51  the match on client.get(&url).send().await: a request
\* that fails (refused, not a url, no answer within the timeout) is
\* Err(_), which gives Ok(false); a response gives Ok(is_success)
HealthSendResult(cond) ==
    IF cond.net # "answers" \/ cond.delay >= HealthTimeout THEN "false"
    ELSE IF is_success(cond.status) THEN "true" ELSE "false"

\* status.rs:40-46  the command is invoked and builds its client; a
\* builder that fails returns the error
HealthCall ==
    /\ hpc \in {"idle", "done"}
    /\ hcalls < MaxHealthCalls
    /\ hcalls' = hcalls + 1
    /\ \E built \in BOOLEAN, cond \in Conditions :
          /\ hbuilt' = built
          /\ hcond' = cond
          /\ hpc' = IF built THEN "send" ELSE "done"
          /\ hresult' = IF built THEN "none" ELSE "Err"
    /\ UNCHANGED notHealth

\* status.rs:48-51  send().await resolves
HealthSend ==
    /\ hpc = "send"
    /\ hpc' = "done"
    /\ hresult' = HealthSendResult(hcond)
    /\ UNCHANGED <<hbuilt, hcond, hcalls>>
    /\ UNCHANGED notHealth

(* ------ get_azure_resources and get_github_deployments ---------------- *)

\* resources.rs:92-188  what `az resource list` may end in
AzureOutcomes == {"ok", "badjson", "nonzero", "nospawn"}

\* github.rs:49, cli.rs:24-113  what execute_devhub_cli may end in: a
\* response that reports success or failure, an error whose text holds
\* "command", any other error
CliOutcomes == {"ok", "refused", "unknown_command", "error"}

\* github.rs:55-98  what the fallback may end in: the repository is not
\* owner/repo, or `gh api` ends in one of these
GhOutcomes == {"badrepo", "ok", "badjson", "nonzero", "nospawn"}

\* resources.rs:22-31, github.rs:30-38  the lookup: a hit returns the
\* cached response; a miss goes on, to the check of the az installation
\* or to the rate limiter
MemoLookupResult(rec, value) ==
    IF value # Miss
    THEN [rec EXCEPT !.pc = "done", !.result = "cached", !.value = value]
    ELSE [rec EXCEPT !.pc = IF rec.kind = "azure_resources" THEN "installed"
                                                             ELSE "limit"]

\* a listing that stores whatever it fetched
StoresEveryFetch(kind, tool) == TRUE

\* resources.rs:151-153, github.rs:84-86, 102-103  the successful paths
\* that call set: az and the gh fallback do, the path on which
\* execute_devhub_cli succeeded returns its response as it is
StoresFetched(kind, tool) == ~(kind = "github_deployments" /\ tool = "cli")

\* resources.rs:152, github.rs:85  CACHE.set(cache_key, cached_json, ttl)
\* on the paths that store; the configuration is loaded by set
MemoStore(es, rec, tool, value, en, now) ==
    IF StoresFetched(rec.kind, tool) /\ Stores(en)
    THEN InsertEntry(es, rec.key, NewEntry(value, rec.ttl, now))
    ELSE es

\* the call returns what it fetched
MemoFetched(rec, value) ==
    [rec EXCEPT !.pc = "done", !.result = "fetched", !.value = value]

\* the call returns a failure: a response with success false, or an Err
MemoFailed(rec, res) == [rec EXCEPT !.pc = "done", !.result = res]

\* the clock advances by a second
MemoTick ==
    /\ mclock < MaxMemoTime
    /\ mclock' = mclock + 1
    /\ UNCHANGED <<mentries, mcall, mpasses, mtools, mfetched, mcalls>>
    /\ UNCHANGED notMemo

\* resources.rs:12-31, github.rs:22-38  a listing is requested: the key
\* is built, the ttl is read from the configuration and the cache is
\* asked; the configuration is loaded afresh by get
MemoBegin ==
    /\ mcall.pc \in {"idle", "done"}
    /\ mcalls < MaxMemoCalls
    /\ mcalls' = mcalls + 1
    /\ \E kind \in Listings, key \in Keys, ttl \in 0..MaxTtl, enabled \in BOOLEAN :
          LET es == mentries[kind]
              rec == [NoListing EXCEPT !.kind = kind, !.key = key, !.ttl = ttl,
                                       !.enabled = enabled]
          IN /\ mentries' = [mentries EXCEPT ![kind] =
                                IF enabled THEN GetEntries(es, key, mclock) ELSE es]
             /\ mcall' = MemoLookupResult(rec, IF enabled
                                                THEN GetValue(es, key, mclock)
                                                ELSE Miss)
    /\ UNCHANGED <<mclock, mpasses, mtools, mfetched>>
    /\ UNCHANGED notMemo

\* resources.rs:33-51  check_azure_cli_installed(): it looks for the file
\* or runs `az --version` (helpers.rs:64-74); without az the call returns
\* a failure response
MemoInstalled ==
    /\ mcall.pc = "installed"
    /\ \E ran \in BOOLEAN, installed \in BOOLEAN :
          /\ mtools' = IF ran THEN mtools + 1 ELSE mtools
          /\ mcall' = IF installed THEN [mcall EXCEPT !.pc = "limit"]
                                   ELSE MemoFailed(mcall, "failed")
    /\ UNCHANGED <<mclock, mentries, mpasses, mfetched, mcalls>>
    /\ UNCHANGED notMemo

\* resources.rs:54, github.rs:41  wait_azure_rate_limit().await /
\* wait_github_rate_limit().await has returned
MemoLimit ==
    /\ mcall.pc = "limit"
    /\ mpasses' = mpasses + 1
    /\ mcall' = [mcall EXCEPT !.pc = "tool"]
    /\ UNCHANGED <<mclock, mentries, mtools, mfetched, mcalls>>
    /\ UNCHANGED notMemo

\* history: the call fetched value successfully while caching was enabled
NoteFetch(fs, rec, value, en, now) ==
    IF en
    THEN [fs EXCEPT ![rec.kind][rec.key] =
             [made |-> TRUE, at |-> now, ttl |-> rec.ttl, value |-> value]]
    ELSE fs

\* resources.rs:56-188  az is run and its output parsed, stored and
\* returned; github.rs:43-104  execute_devhub_cli is run: its response is
\* returned, or its error, or the fallback is taken
MemoTool ==
    /\ mcall.pc = "tool"
    /\ mtools' = mtools + 1
    /\ \E en \in BOOLEAN :
          IF mcall.kind = "azure_resources"
          THEN \E o \in AzureOutcomes :
                  IF o = "ok"
                  THEN /\ mcall' = MemoFetched(mcall, mcalls)
                       /\ mentries' = [mentries EXCEPT ![mcall.kind] =
                                         MemoStore(@, mcall, "az", mcalls, en, mclock)]
                       /\ mfetched' = NoteFetch(mfetched, mcall, mcalls, en, mclock)
                  ELSE /\ mcall' = MemoFailed(mcall, "failed")
                       /\ UNCHANGED <<mentries, mfetched>>
          ELSE \E o \in CliOutcomes :
                  IF o = "ok"
                  THEN /\ mcall' = MemoFetched(mcall, mcalls)
                       /\ mentries' = [mentries EXCEPT ![mcall.kind] =
                                         MemoStore(@, mcall, "cli", mcalls, en, mclock)]
                       /\ mfetched' = NoteFetch(mfetched, mcall, mcalls, en, mclock)
                  ELSE /\ mcall' = IF o = "unknown_command"
                                   THEN [mcall EXCEPT !.pc = "gh"]
                                   ELSE MemoFailed(mcall, IF o = "refused"
                                                          THEN "failed" ELSE "Err")
                       /\ UNCHANGED <<mentries, mfetched>>
    /\ UNCHANGED <<mclock, mpasses, mcalls>>
    /\ UNCHANGED notMemo

\* github.rs:52-98  the fallback: `gh api` is run unless the repository
\* is not owner/repo; its parsed output is stored and returned
MemoFallback ==
    /\ mcall.pc = "gh"
    /\ \E o \in GhOutcomes, en \in BOOLEAN :
          /\ mtools' = IF o = "badrepo" THEN mtools ELSE mtools + 1
          /\ IF o = "ok"
             THEN /\ mcall' = MemoFetched(mcall, mcalls)
                  /\ mentries' = [mentries EXCEPT ![mcall.kind] =
                                    MemoStore(@, mcall, "gh", mcalls, en, mclock)]
                  /\ mfetched' = NoteFetch(mfetched, mcall, mcalls, en, mclock)
             ELSE /\ mcall' = MemoFailed(mcall, "Err")
                  /\ UNCHANGED <<mentries, mfetched>>
    /\ UNCHANGED <<mclock, mpasses, mcalls>>
    /\ UNCHANGED notMemo

(* ------------------------------ results ------------------------------ *)

\* the tauri runtime hands the result of the returned call to the caller
TakeResult ==
    /\ ~Quiet
    /\ UNCHANGED lock
    /\ UNCHANGED notLifecycle
    /\ ret' = IdleCall
    /\ UNCHANGED <<services, call, proc, nextPid, calls>>

\* the call invoked by a step that raises calls: it is shown in ret' when
\* it returned at once, and sits in its task otherwise
Invoked ==
    IF ret' # IdleCall THEN ret'
    ELSE call'[CHOOSE c \in Callers : call[c].op = "idle" /\ call'[c].op # "idle"]

(* ------------------------------- Next --------------------------------- *)

Next ==
    \/ \E c \in Callers : StartCheck(c)
    \/ \E c \in Callers : StartBuild(c)
    \/ \E c \in Callers : StartSpawn(c)
    \/ \E c \in Callers : StartInsert(c)
    \/ \E c \in Callers : StopRemove(c)
    \/ \E c \in Callers : StopKill(c)
    \/ \E c \in Callers : PrebuildCollect(c)
    \/ \E c \in Callers : PrebuildRemove(c)
    \/ \E c \in Callers : PrebuildKill(c)
    \/ \E c \in Callers : PrebuildPaths(c)
    \/ \E c \in Callers : PrebuildBuild(c)
    \/ \E p \in ProcIds : ProcExit(p)
    \/ \E p \in ProcIds : Reaper(p)
    \/ TakeResult

Spec == Init /\ [][Next]_vars

\* the commands of lifecycle.rs together with get_service_status
StatusNext ==
    \/ Next
    \/ \E c \in Callers : StatusLock(c)
    \/ \E c \in Callers : StatusProbe(c)

StatusSpec == Init /\ [][StatusNext]_vars

RateNext ==
    \/ Tick
    \/ \E c \in RlCallers : RlBegin(c)
    \/ \E c \in RlCallers : RlCheck(c)
    \/ \E c \in RlCallers : RlRecord(c)

\* the limiter freshly constructed; the other components stay idle
RateSpecInit ==
    /\ RateInit /\ LifecycleInit /\ KillIdle /\ CacheIdle /\ RetryIdle /\ LogIdle
    /\ HealthIdle /\ MemoIdle

RateSpec == RateSpecInit /\ [][RateNext]_vars

KillNext ==
    \/ KillByPid
    \/ KillPoll
    \/ KillByPort
    \/ KillSettle
    \/ KillProcessExits

CacheNext ==
    \/ CacheTick
    \/ CacheGet
    \/ CacheSet
    \/ CacheInvalidate
    \/ CacheClear

\* a cache freshly constructed; the other components stay idle
CacheSpecInit ==
    /\ CacheIdle /\ LifecycleInit /\ KillIdle /\ RateIdle /\ RetryIdle /\ LogIdle
    /\ HealthIdle /\ MemoIdle

CacheSpec == CacheSpecInit /\ [][CacheNext]_vars

RetryNext ==
    \/ RetryBegin
    \/ RetryOnce
    \/ RetryInvoke
    \/ RetrySleep

\* no retry function called yet; the other components stay idle
RetrySpecInit ==
    /\ RetryIdle /\ LifecycleInit /\ KillIdle /\ RateIdle /\ CacheIdle /\ LogIdle
    /\ HealthIdle /\ MemoIdle

RetrySpec == RetrySpecInit /\ [][RetryNext]_vars

LogNext ==
    \/ \E s \in Streams : LogLine(s)
    \/ ChildExit
    \/ StepReturn

\* a child being streamed; the other components stay idle
LogSpecInit ==
    /\ LogInit /\ LifecycleInit /\ KillIdle /\ RateIdle /\ CacheIdle /\ RetryIdle
    /\ HealthIdle /\ MemoIdle

LogSpec == LogSpecInit /\ [][LogNext]_vars

\* helpers.rs:111, 137  each task is a tokio task of its own: the runtime
\* resumes it whenever next_line() has a line, an error or the end of the
\* stream to hand over
LogFairSpec ==
    /\ LogSpec
    /\ \A s \in Streams : WF_vars(LogLine(s))

HealthNext ==
    \/ HealthCall
    \/ HealthSend

\* calls of check_service_health; the other components stay idle
HealthSpec == Init /\ [][HealthNext]_vars

MemoNext ==
    \/ MemoTick
    \/ MemoBegin
    \/ MemoInstalled
    \/ MemoLimit
    \/ MemoTool
    \/ MemoFallback

\* calls of the two listing commands; the other components stay idle
MemoSpec == Init /\ [][MemoNext]_vars

\* a record handed to stop_service_process; the other components stay idle
KillSpecInit ==
    /\ KillInit /\ LifecycleInit /\ RateIdle /\ CacheIdle /\ RetryIdle /\ LogIdle
    /\ HealthIdle /\ MemoIdle

KillSpec == KillSpecInit /\ [][KillNext]_vars

\* every step of stop_service_process is a command that returns or a
\* sleep that ends
KillFairSpec ==
    /\ KillSpec
    /\ WF_vars(KillByPid) /\ WF_vars(KillPoll)
    /\ WF_vars(KillByPort) /\ WF_vars(KillSettle)

\* The tokio runtime runs a detached reaper task once child.wait() has
\* resolved, and no lock scope of the source blocks: the reaper's removal
\* and the delivery of a result are not postponed for ever.
FairSpec ==
    /\ Spec
    /\ \A p \in ProcIds : WF_vars(Reaper(p))
    /\ WF_vars(TakeResult)

(* ----------------------------- properties ----------------------------- *)

\* C1: two start calls of one service never both pass the registry check
\* and both insert: a start that returns Ok did not insert over a record
\* that another start had put there in the meantime.
C1_StartNeverInsertsTwice ==
    (ret.op = "start" /\ ret.result = "Ok") => ~ret.overwrote

\* C2: when stop(X) returns Ok, X is absent from the registry and from the
\* status output, whatever the kill did -- unless a start call inserted a
\* new record of X after the stop had removed the old one.
C2_StopRemovesUnlessRestarted ==
    (ret.op = "stop" /\ ret.result = "Ok" /\ ~ret.sawInsert)
        => (~contains_key(ret.name) /\ ret.name \notin get_service_status)

\* C2 as stated: when stop(X) returns Ok, X is absent from the registry and
\* from the status output.
C2_StopRemoves ==
    (ret.op = "stop" /\ ret.result = "Ok")
        => (~contains_key(ret.name) /\ ret.name \notin get_service_status)

\* stop returned although its kill left the process running
C2_StopReturnedKillFailed ==
    /\ ret.op = "stop" /\ ret.result = "Ok" /\ ~ret.sawInsert
    /\ is_process_running(ret.info.pid)

\* C3: a prebuild that got past its root checks and met no start call past
\* its check returns to a registry that holds none of the services it found
\* and not its own service; it inserted no record and spawned no process.
C3_PrebuildStopsAll ==
    (ret.op = "prebuild" /\ ret.root = "repo" /\ ~ret.overlap)
        => /\ ret.found \cap Present(services) = {}
           /\ ~contains_key(ret.name)
           /\ ~ret.inserted /\ ~ret.spawned /\ ret.child = 0

\* prebuild of a running service returned Ok after stopping two services
C3_PrebuildStoppedTwo ==
    /\ ret.op = "prebuild" /\ ret.result = "Ok" /\ ~ret.overlap
    /\ ret.name \in ret.found /\ Cardinality(ret.found) = 2
    /\ Len(ret.kills) = 2

\* C4: at the step where prebuild begins its build, no service is present
\* in the registry.
C4_PrebuildBarrier ==
    [][\A c \in Callers :
          (call[c].op = "prebuild" /\ call[c].pc = "paths" /\ call'[c].pc = "build")
              => Present(services') = {}]_vars

\* C5: a start call whose build fails (the tool cannot be spawned or exits
\* non-zero) returns BuildFailed at that step, having spawned no process
\* and inserted no record; the step changes neither the registry nor the
\* processes and their reapers.
C5_BuildFailureIsFatal ==
    [][\A c \in Callers :
          (call[c].op = "start" /\ call[c].pc = "build" /\ call'[c] # call[c])
              => LET r == IF ret' # IdleCall THEN ret' ELSE call'[c]
                 IN r.build \in {"nonzero", "nospawn"}
                        => /\ ret' = r
                           /\ r.result = "BuildFailed"
                           /\ ~r.spawned /\ ~r.inserted /\ r.child = 0
                           /\ services' = services
                           /\ proc' = proc /\ nextPid' = nextPid]_vars

\* a start failed on a non-zero exit of the build while a service was present
C5_BuildFailedReturned ==
    /\ ret.op = "start" /\ ret.result = "BuildFailed" /\ ret.build = "nonzero"
    /\ Present(services) # {}

\* C6: a start of a service that is present in the registry returns
\* AlreadyRunning at once: no build, no spawn, no insert, and the registry
\* (the record with its pid, port and url) and the processes are untouched.
C6_AlreadyRunning ==
    [][calls' = calls + 1
          => ((Invoked.op = "start" /\ contains_key(Invoked.name))
                => /\ ret' = Invoked
                   /\ ret'.result = "AlreadyRunning"
                   /\ ret'.build = "none" /\ ~ret'.spawned /\ ~ret'.inserted
                   /\ services' = services
                   /\ proc' = proc /\ nextPid' = nextPid)]_vars

\* a start with valid arguments was refused because its service is present
C6_RefusedStart ==
    /\ ret.op = "start" /\ ret.result = "AlreadyRunning"
    /\ ret.root = "repo" /\ ret.projOk
    /\ contains_key(ret.name)

\* C7: a stop of a service that is absent from the registry returns
\* NotRunning at once: no kill attempt, registry and processes untouched.
C7_NotRunning ==
    [][calls' = calls + 1
          => ((Invoked.op = "stop" /\ ~contains_key(Invoked.name))
                => /\ ret' = Invoked
                   /\ ret'.result = "NotRunning"
                   /\ ret'.kills = <<>>
                   /\ services' = services
                   /\ proc' = proc)]_vars

\* a stop was refused while an untracked process of its service was running
C7_RefusedStop ==
    /\ ret.op = "stop" /\ ret.result = "NotRunning"
    /\ \E p \in ProcIds : proc[p].state = "alive" /\ proc[p].name = ret.name

\* C8: a start with an empty or nonexistent root, an unknown service name
\* or a missing project directory returns an error at once: no build, no
\* spawn, no insert, registry and processes untouched.
C8_StartPreconditions ==
    [][calls' = calls + 1
          => ((/\ Invoked.op = "start"
               /\ \/ Invoked.root \in {"", "missing"}
                  \/ ~get_service_paths_ok(Invoked.name)
                  \/ ~Invoked.projOk)
                => /\ ret' = Invoked
                   /\ ret'.result \in
                        {"AlreadyRunning", "InvalidEnvironment", "UnknownService"}
                   /\ ret'.result = "AlreadyRunning" => contains_key(ret'.name)
                   /\ ret'.build = "none" /\ ~ret'.spawned /\ ~ret'.inserted
                   /\ services' = services
                   /\ proc' = proc /\ nextPid' = nextPid)]_vars

\* a start of a known service under an existing root failed on its missing
\* project directory while another service was present
C8_MissingProjectDir ==
    /\ ret.op = "start" /\ ret.result = "InvalidEnvironment"
    /\ ret.root = "repo" /\ ret.name \in Names /\ ~ret.projOk
    /\ Present(services) # {}

\* C9: when the process a record was created for has exited, the service
\* of that record is eventually absent from the registry (and a start of
\* it then passes the registry check).
C9_ReaperRemoves ==
    \A p \in ProcIds, n \in Names :
        (proc[p].state = "dead" /\ proc[p].reaper = "waiting" /\ services[n].proc = p)
            ~> (services[n] = NoRec)

\* the only command invoked was a start; its process exited, the reaper
\* has run and the registry is empty
C9_ReapedAfterExit ==
    /\ calls = 1
    /\ \E p \in ProcIds : proc[p] = Reaped
    /\ Present(services) = {}

\* C10: the reaper of a process removes no record but the one created for
\* that process.
C10_ReaperRemovesOwnRecord ==
    [][\A p \in ProcIds :
          (proc[p].reaper = "waiting" /\ proc'[p].reaper = "done")
              => \A n \in Names :
                    services'[n] # services[n] => services[n].proc = p]_vars

\* C11: the entries a status query returns are exactly those of the
\* services that are present in the registry and whose process is alive,
\* each with running = TRUE and the port and url fixed for the service.
C11_StatusListsLivePresent ==
    [][\A c \in Callers :
          (call[c].op = "status" /\ call[c].pc = "probe" /\ ret'.op = "status")
              => ret'.listed =
                    {[name |-> n, running |-> TRUE,
                      port |-> ServicePort(n), url |-> ServiceUrl(n)] :
                        n \in {m \in Names :
                                 /\ services[m] # NoRec
                                 /\ proc[services[m].proc].state = "alive"}}]_vars

\* a status query listed one service and left out one whose process is dead
C11_StatusOmitsDead ==
    /\ ret.op = "status" /\ Cardinality(ret.listed) = 1
    /\ Cardinality(Present(services)) = 2

\* C12: no liveness probe of a status query runs while the query holds the
\* registry lock.
C12_NoProbeUnderLock ==
    \A c \in Callers :
        (call[c].op = "status" /\ call[c].pc = "probe") => lock # c

\* C13: start, stop, prebuild and the reaper hold the registry lock in no
\* state between their steps: whenever such a call is at a build, spawn,
\* kill or sleep, the lock is not theirs.
C13_NoLockAcrossAwait ==
    /\ lock # ReaperTask
    /\ \A c \in Callers : (InFlight(c) /\ call[c].op # "status") => lock # c

\* while a start is building, another call holds the lock
C13_LockTakenDuringBuild ==
    \E c, e \in Callers :
        /\ call[c].op = "start" /\ call[c].pc = "build"
        /\ lock = e /\ e # c

C15_KillTerminates ==
    <>(kpc = "done" /\ polls <= PollBudget)

\* the poll budget was used up and the process is still running
C15_BudgetExhausted ==
    kpc = "done" /\ polls = PollBudget /\ procUp

\* the timestamps of service s recorded within the trailing window
InWindow(s) == Len(Retain(requests[s].ts, Now - Window))

\* C16: while calls of wait_if_needed are made one after another, and the
\* limit of a service is at least 1, the timestamps recorded for the service
\* within the trailing 60 seconds never exceed its limit.
C16_WindowBoundPositiveLimit ==
    ~overlapped
        => \A s \in RlServices : limitOf[s] >= 1 => InWindow(s) <= limitOf[s]

\* C16 as stated: for any limit, calls made one after another never leave
\* more timestamps within the trailing 60 seconds than the limit.
C16_WindowBound ==
    ~overlapped => \A s \in RlServices : InWindow(s) <= limitOf[s]

\* a call made after the others had returned waited, and the window of its
\* service is filled to the limit of 2
C16_WaitedAtLimit ==
    /\ ~overlapped
    /\ \E c \in RlCallers :
          /\ rl[c].pc = "done" /\ rl[c].enabled /\ rl[c].wait > 0
          /\ limitOf[rl[c].service] = 2
          /\ InWindow(rl[c].service) = 2

\* C17: in every interleaving, when a call returns the window of its
\* service, the timestamp just appended included, holds no more timestamps
\* than the limit (limits of at least 1).
C17_BoundAtReturn ==
    [][\A c \in RlCallers :
          (/\ rl[c].pc \in {"record", "sleep"} /\ rl'[c].pc = "done"
           /\ limitOf[rl[c].service] >= 1)
              => Len(requests'[rl[c].service].ts) <= limitOf[rl[c].service]]_vars

\* C18: at its check a call (limits of at least 1) is suspended exactly
\* when the window pruned by the clock it read holds at least the limit,
\* for 60 minus the age of the oldest timestamp left; otherwise it goes on
\* to record without suspension.
C18_SuspendedExactlyWhenFull ==
    [][\A c \in RlCallers :
          (/\ rl[c].pc = "check" /\ rl'[c] # rl[c]
           /\ rlock = RlUnlocked
           /\ limitOf[rl[c].service] >= 1)
              => LET kept == Retain(requests[rl[c].service].ts, rl[c].now - Window)
                 IN IF Len(kept) >= limitOf[rl[c].service]
                    THEN /\ rl'[c].pc = "sleep"
                         /\ rl'[c].wait = Window - (rl[c].now - kept[1])
                    ELSE rl'[c].pc = "record"]_vars

\* C19: a call made with rate limiting disabled returns at once: it does
\* not wait and changes no window (nor the lock).
C19_DisabledIsNoOp ==
    [][rcalls' = rcalls + 1
          => \A c \in RlCallers :
                (rl'[c] # rl[c] /\ ~rl'[c].enabled)
                    => /\ rl'[c].pc = "done" /\ rl'[c].wait = 0
                       /\ requests' = requests
                       /\ rlock' = rlock]_vars

\* a disabled call returned although the window of its service was full
C19_DisabledAtFullWindow ==
    \E c \in RlCallers :
        /\ rl[c].pc = "done" /\ ~rl[c].enabled
        /\ limitOf[rl[c].service] >= 1
        /\ InWindow(rl[c].service) >= limitOf[rl[c].service]

\* C20: a caller that is suspended (or is between its check and its record)
\* does not hold the lock of the rate limiter; the window of a service is
\* changed only by steps of calls for that service; and a call that comes
\* to its check while the window of its own service is under the limit goes
\* on to record without suspension, whatever calls for the other service
\* have done.
C20_NoLockAsleepIndependentWindows ==
    [][/\ \A c \in RlCallers : rl'[c].pc \in {"sleep", "record"} => rlock' # c
       /\ \A s \in RlServices :
             requests'[s] # requests[s]
                 => \E c \in RlCallers : rl[c].service = s /\ rl'[c] # rl[c]
       /\ \A c \in RlCallers :
             (/\ rl[c].pc = "check" /\ rl'[c] # rl[c]
              /\ Len(Retain(requests[rl[c].service].ts, rl[c].now - Window))
                    < limitOf[rl[c].service])
                 => rl'[c].pc = "record"]_vars

\* a call panicked at the lock although the window of its service was empty:
\* the mutex had been poisoned by a call for the other service
C20_RefusedByOtherService ==
    \E c \in RlCallers :
        /\ rl[c].pc = "panicked"
        /\ rlock = RlPoisoned
        /\ limitOf[rl[c].service] >= 1
        /\ requests[rl[c].service] = NoWindow

\* C21: with caching enabled, a get of a key whose latest set (value v, at
\* time t, with ttl) was followed by no invalidate of the key and no clear
\* returns v when it is made at a time up to t + ttl, and miss when it is
\* made later.
C21_LiveUntilDeadline ==
    [][(/\ cops' = cops + 1
        /\ last'.op = "get" /\ last'.enabled
        /\ lastSet[last'.key].made)
          => LET set == lastSet[last'.key]
             IN IF last'.at <= set.at + set.ttl
                THEN last'.result = set.value
                ELSE last'.result = Miss]_vars

\* a get made exactly ttl > 0 seconds after the set returned the value
C21_HitAtDeadline ==
    /\ last.op = "get" /\ last.enabled
    /\ lastSet[last.key].made /\ lastSet[last.key].ttl > 0
    /\ last.at = lastSet[last.key].at + lastSet[last.key].ttl
    /\ last.result = lastSet[last.key].value

\* C22: with caching disabled a get reports miss and changes nothing, and a
\* set stores nothing; no get, whenever it is made, returns a value that was
\* passed to a set made while caching was disabled.
C22_DisabledStoresNothing ==
    [][cops' = cops + 1
          => /\ (last'.op = "get" /\ ~last'.enabled)
                    => (last'.result = Miss /\ entries' = entries)
             /\ (last'.op = "set" /\ ~last'.enabled) => entries' = entries
             /\ last'.op = "get"
                    => \A pair \in unstored : last'.result # pair[2]]_vars

\* caching is enabled again and a get of a key that was set only while
\* caching was disabled, made at the time of that set, reports miss
C22_MissAfterDisabledSet ==
    /\ last.op = "get" /\ last.enabled /\ last.result = Miss
    /\ clock = 0
    /\ ~lastSet[last.key].made
    /\ \E pair \in unstored : pair[1] = last.key

\* C23: when a get made with caching enabled returns, no entry of any key
\* is left in the store whose expiry has passed, and a value it returns is
\* that of an entry that has not expired.
C23_GetPurgesExpired ==
    [][(cops' = cops + 1 /\ last'.op = "get" /\ last'.enabled)
          => /\ \A k \in Keys :
                   entries'[k].present => clock <= entries'[k].expires_at
             /\ last'.result # Miss
                   => /\ entries[last'.key].present
                      /\ entries[last'.key].data = last'.result
                      /\ clock <= entries[last'.key].expires_at]_vars

\* a get returned the live value of its key, and the entry of the other
\* key, set and never invalidated or cleared, is gone from the store
C23_OtherKeyPurged ==
    /\ last.op = "get" /\ last.enabled /\ last.result # Miss
    /\ \E k \in Keys :
          /\ k # last.key
          /\ lastSet[k].made /\ clock > lastSet[k].at + lastSet[k].ttl
          /\ ~entries[k].present

\* C24: a set made with caching enabled puts the new value and the expiry
\* now + ttl in place of what the key had and leaves every other key as it
\* was; a later get of a key that was set twice returns the second value up
\* to the second expiry and miss afterwards, wherever the first expiry lay.
C24_SetReplaces ==
    [][cops' = cops + 1
          => /\ (last'.op = "set" /\ last'.enabled)
                    => /\ entries'[last'.key] =
                              [present |-> TRUE, data |-> last'.value,
                               expires_at |-> clock + last'.ttl]
                       /\ \A k \in Keys \ {last'.key} : entries'[k] = entries[k]
             /\ (/\ last'.op = "get" /\ last'.enabled
                 /\ prevExp[last'.key] # NoExpiry)
                    => LET set == lastSet[last'.key]
                       IN last'.result =
                             IF clock <= set.at + set.ttl THEN set.value
                                                          ELSE Miss]_vars

\* a get reported miss past the second expiry although the expiry of the
\* first set had not yet passed
C24_MissBeforeOldExpiry ==
    /\ last.op = "get" /\ last.enabled /\ last.result = Miss
    /\ prevExp[last.key] # NoExpiry
    /\ last.at > lastSet[last.key].at + lastSet[last.key].ttl
    /\ last.at <= prevExp[last.key]

\* C25: invalidate removes the entry of its key whatever the configuration
\* says and whether or not the entry has expired, and changes no other key;
\* clear leaves the store empty; a get of a key that was not set since it
\* was removed reports miss.
C25_InvalidateAndClear ==
    [][cops' = cops + 1
          => /\ last'.op = "invalidate"
                    => /\ ~entries'[last'.key].present
                       /\ \A k \in Keys \ {last'.key} : entries'[k] = entries[k]
             /\ last'.op = "clear" => \A k \in Keys : ~entries'[k].present
             /\ (last'.op = "get" /\ ~lastSet[last'.key].made)
                    => last'.result = Miss]_vars

\* with caching disabled an invalidate removed an entry while the other key
\* kept its own
C25_InvalidatedWhileDisabled ==
    /\ last.op = "invalidate" /\ ~last.enabled /\ last.result # Miss
    /\ ~entries[last.key].present
    /\ \E k \in Keys : k # last.key /\ entries[k].present

\* C26: with retries enabled, retry_with_backoff invokes the operation
\* until its first success or until max_retries + 1 invocations have failed:
\* no invocation follows a success, a failure is returned only after exactly
\* max_retries + 1 invocations, and what is returned is the result of the
\* last invocation.
C26_InvokedUntilSuccessOrBudget ==
    (variant = "plain" /\ renabled)
        => /\ \A i \in 1..(Len(outcomes) - 1) : outcomes[i] # OkResult
           /\ Len(outcomes) <= policy.max_retries + 1
           /\ (rpc = "done")
                 => /\ rresult = outcomes[Len(outcomes)]
                    /\ rresult # OkResult => Len(outcomes) = policy.max_retries + 1

\* with max_retries = 3 the operation failed four times and the fourth
\* failure was returned
C26_FourFailures ==
    /\ variant = "plain" /\ renabled /\ rpc = "done"
    /\ policy.max_retries = 3
    /\ Len(outcomes) = 4
    /\ rresult = outcomes[4] /\ rresult # OkResult

\* C27: with retries enabled, retry_on_retryable_error stops at the first
\* failure the classifier rejects: that failure is the last invocation and
\* the value returned, and no sleep follows it.
C27_StopsAtNotRetryable ==
    (variant = "classified" /\ renabled)
        => \A i \in 1..Len(outcomes) :
              (outcomes[i] # OkResult /\ ~is_retryable_error(outcomes[i]))
                  => /\ i = Len(outcomes)
                     /\ rpc = "done"
                     /\ rresult = outcomes[i]
                     /\ Len(sleeps) = i - 1

\* a retryable failure was retried and the second invocation failed with an
\* error the classifier rejects, with retries still left
C27_RejectedOnSecond ==
    /\ variant = "classified" /\ renabled /\ rpc = "done"
    /\ policy.max_retries = 3
    /\ Len(outcomes) = 2
    /\ is_retryable_error(outcomes[1])
    /\ rresult = ErrNotFound

\* C28: in both variants the first sleep is initial_backoff_ms and every
\* later sleep is the previous one times the multiplier, cut to whole
\* milliseconds and capped at max_backoff_ms; with the defaults the sleeps
\* are 100, 200, 400; there is one sleep between two invocations and none
\* after the last.
C28_BackoffTruncatedAndCapped ==
    /\ Len(sleeps) >= 1 => sleeps[1] = policy.initial_backoff_ms
    /\ \A i \in 1..(Len(sleeps) - 1) :
          sleeps[i + 1] =
             IF (sleeps[i] * policy.multiplier[1]) \div policy.multiplier[2]
                    <= policy.max_backoff_ms
             THEN (sleeps[i] * policy.multiplier[1]) \div policy.multiplier[2]
             ELSE policy.max_backoff_ms
    /\ policy = DefaultPolicy
          => \A i \in 1..Len(sleeps) : sleeps[i] = <<100, 200, 400>>[i]
    /\ Len(sleeps) = IF rpc = "done" THEN Len(outcomes) - 1 ELSE Len(outcomes)

\* C28 as stated: every later sleep is exactly min(previous sleep times
\* the multiplier, max_backoff_ms).
C28_BackoffExact ==
    \A i \in 1..(Len(sleeps) - 1) :
        sleeps[i + 1] * policy.multiplier[2] =
           IF sleeps[i] * policy.multiplier[1]
                  <= policy.max_backoff_ms * policy.multiplier[2]
           THEN sleeps[i] * policy.multiplier[1]
           ELSE policy.max_backoff_ms * policy.multiplier[2]

\* with a multiplier of 3/2 the sleeps were 3, 4 and 6 milliseconds
C28_SleepsThreeFourSix ==
    /\ rpc = "done" /\ renabled
    /\ policy.multiplier = <<3, 2>>
    /\ sleeps = <<3, 4, 6>>
    /\ Len(outcomes) = 4

\* C29: with retries disabled both variants invoke the operation once,
\* never sleep and return the result of that invocation.
C29_DisabledInvokesOnce ==
    ~renabled
        => /\ Len(outcomes) <= 1
           /\ sleeps = <<>>
           /\ rpc = "done" => (Len(outcomes) = 1 /\ rresult = outcomes[1])

\* with retries disabled a failure the classifier would retry was returned
\* at once although the policy allows three retries
C29_RetryableReturnedAtOnce ==
    /\ ~renabled /\ rpc = "done" /\ variant = "classified"
    /\ policy.max_retries = 3
    /\ rresult = ErrConnection /\ is_retryable_error(rresult)

\* C30: when the publication of a line fails, the streaming task stays in
\* its loop and the result of the step is not touched; a line that was
\* dropped is never delivered later; and the step fails only when it is a
\* build whose child exited with a failure.
C30_EmitFailureDiscarded ==
    [][/\ \A s \in Streams :
             (line'[s] = line[s] + 1 /\ delivered' = delivered)
                 => /\ lpc'[s] = "read"
                    /\ stepResult' = stepResult
                    /\ <<s, line'[s]>> \in dropped'
       /\ \A i \in 1..Len(delivered') : delivered'[i] \notin dropped'
       /\ stepResult' = "Err" => (source' = "build" /\ exited' = "failure")]_vars

\* the first line of a stream was dropped, the second was then delivered,
\* and the build step returned Ok
C30_DeliveredAfterDrop ==
    \E s \in Streams :
        /\ <<s, 1>> \in dropped
        /\ \E i \in 1..Len(delivered) : delivered[i] = <<s, 2>>
        /\ source = "build" /\ stepResult = "Ok"

\* the events of one stream among the published ones, in their order
PublishedOf(events, s) ==
    LET OfStream(e) == e.type = s
    IN SelectSeq(events, OfStream)

\* C31: the task of each stream publishes exactly one event per line it
\* read, in the order of the lines, tagged with the service name, the
\* stream and the phase; it ends when next_line() meets the end of the
\* stream (or a read error) and publishes nothing afterwards; the return
\* of the step that spawned it changes nothing of this, and every task
\* ends once its stream is exhausted.
C31_OneEventPerLineInOrder ==
    /\ [][/\ \A s \in Streams :
                /\ PublishedOf(published', s)
                       = [i \in 1..line'[s] |->
                             LogEvent(logService', s, source', i)]
                /\ lpc[s] = "ended"
                       => /\ lpc'[s] = "ended"
                          /\ PublishedOf(published', s) = PublishedOf(published, s)
                /\ lpc'[s] # lpc[s]
                       => /\ lpc'[s] = "ended"
                          /\ published' = published
                          /\ pipe[s] = <<>> \/ Head(pipe[s]) = "unreadable"
                /\ (lpc[s] = "read" /\ pipe[s] = <<>>) => line'[s] = line[s]
          /\ stepResult' # stepResult => (lpc' = lpc /\ published' = published)
          /\ Len(published') <= Len(published) + 1]_vars
    /\ <>(\A s \in Streams : lpc[s] = "ended")

\* start_service has returned Ok while the run process is alive; the tasks
\* of both streams have published a line and the task of stdout has more
\* to read
C31_PublishingAfterReturn ==
    /\ source = "run" /\ stepResult = "Ok" /\ exited = "running"
    /\ logService = "pwa"
    /\ published = <<LogEvent("pwa", "stdout", "run", 1),
                     LogEvent("pwa", "stderr", "run", 1)>>
    /\ lpc["stdout"] = "read" /\ pipe["stdout"] # <<>>

\* the record of the call of task c after a step: a call that returned
\* has left its task and is shown in ret
After(c) == IF call'[c].op = "idle" THEN ret' ELSE call'[c]

\* task c takes the step: its call changes position, begins or returns
Stepper(c) == call'[c].pc # call[c].pc \/ call'[c].op # call[c].op

\* the service whose kill a stop or prebuild call is about to issue
KillTarget(rec) ==
    IF rec.op = "stop" THEN rec.name ELSE rec.toStop[rec.idx].name

\* C33: stop and prebuild issue a kill attempt for a service only after
\* having removed its record: the step that takes the call to its kill
\* removes a record of that service from the Registry, and kill attempts
\* are issued from nowhere else.
C33_KillOnlyAfterOwnRemoval ==
    [][\A c \in Callers :
          /\ (call'[c].pc \in {"kill", "stop_kill"} /\ Stepper(c))
                => LET n == KillTarget(call'[c])
                   IN services[n] # NoRec /\ services'[n] = NoRec
          /\ (call[c].op \in {"stop", "prebuild"} /\ Stepper(c)
                 /\ Len(After(c).kills) > Len(call[c].kills))
                => call[c].pc \in {"kill", "stop_kill"}]_vars

\* C33 as amended: the removal call for a service precedes its kill
\* attempt. The step that takes stop or prebuild to a kill leaves the
\* service without a record; stop goes on to the kill only with the
\* record it removed itself, while prebuild goes on with the pid and port
\* it collected whether or not its removal found a record; kill attempts
\* are issued from nowhere else and are aimed at that service.
C33_RemovalCallPrecedesKill ==
    [][\A c \in Callers :
          /\ (call'[c].pc \in {"kill", "stop_kill"} /\ Stepper(c))
                => LET n == KillTarget(call'[c])
                   IN /\ services'[n] = NoRec
                      /\ call'[c].op = "stop"
                            => (services[n] # NoRec /\ call'[c].info = services[n])
          /\ (call[c].op \in {"stop", "prebuild"} /\ Stepper(c)
                 /\ Len(After(c).kills) > Len(call[c].kills))
                => /\ call[c].pc \in {"kill", "stop_kill"}
                   /\ Len(After(c).kills) = Len(call[c].kills) + 1
                   /\ After(c).kills[Len(After(c).kills)].name
                         = KillTarget(call[c])]_vars

\* prebuild has issued its kill for api and returned while a stop("api"),
\* which removed the record of api, is still before its own kill
C33_KilledWhatStopRemoved ==
    /\ ret.op = "prebuild" /\ Len(ret.kills) = 1 /\ ret.kills[1].name = "api"
    /\ \E c \in Callers :
          call[c].op = "stop" /\ call[c].name = "api" /\ call[c].pc = "kill"

\* C34: a step of start(X) or stop(X) leaves the record of every other
\* name as it is; a record changes only in a step of a start or stop of
\* its own name, of the reaper of a process of its name, or of prebuild;
\* and whether a start or stop is refused depends on the record of its
\* own name alone, whatever other calls are in flight.
C34_OtherNamesUntouched ==
    [][/\ \A c \in Callers :
            Stepper(c)
               => LET rec == IF call[c].op = "idle" THEN call'[c] ELSE call[c]
                  IN rec.op \in {"start", "stop"}
                        => \A y \in Names \ {rec.name} : services'[y] = services[y]
       /\ (calls' # calls /\ ret' # IdleCall) => services' = services
       /\ \A n \in Names :
            services'[n] # services[n]
               => \/ \E c \in Callers :
                        /\ call[c].op = "start" /\ call[c].pc = "insert"
                        /\ call[c].name = n /\ Stepper(c)
                  \/ \E c \in Callers :
                        /\ call[c].op = "idle" /\ call'[c].op = "stop"
                        /\ call'[c].name = n
                  \/ \E c \in Callers :
                        /\ call[c].op = "prebuild" /\ call[c].pc = "stop_remove"
                        /\ Stepper(c)
                  \/ \E p \in ProcIds :
                        /\ proc[p].reaper = "waiting" /\ proc'[p] = Reaped
                        /\ proc[p].name = n
       /\ calls' # calls
            => /\ Invoked.op = "start"
                    => (Invoked.result = "AlreadyRunning"
                           <=> contains_key(Invoked.name))
               /\ Invoked.op = "stop"
                    => (Invoked.result = "NotRunning"
                           <=> ~contains_key(Invoked.name))]_vars

\* start("api") inserted its record and returned Ok while a stop("pwa")
\* was between its removal and its kill
C34_StartedBesideStop ==
    /\ ret.op = "start" /\ ret.name = "api" /\ ret.result = "Ok"
    /\ \E c \in Callers :
          call[c].op = "stop" /\ call[c].name = "pwa" /\ call[c].pc = "kill"
    /\ services["api"] # NoRec /\ services["pwa"] = NoRec

\* C35: every key of the Registry is a known service name, the record of
\* a key carries that name and the fixed port of that name, and no call
\* for another name gets as far as its build, spawn or insert.
C35_RecordsMatchKnownNames ==
    /\ DOMAIN services = {"api", "admin-api", "pwa"}
    /\ \A n \in DOMAIN services :
          services[n] # NoRec
             => /\ services[n].name = n
                /\ n = "api" => services[n].port = 7096
                /\ n = "admin-api" => services[n].port = 7097
                /\ n = "pwa" => services[n].port = 7000
    /\ \A c \in Callers :
          StartPastCheck(call[c]) => call[c].name \in {"api", "admin-api", "pwa"}
    /\ (ret.op = "start" /\ ret.inserted) => ret.name \in {"api", "admin-api", "pwa"}

\* the three services are in the Registry at once
C35_AllThreeRunning ==
    /\ Present(services) = Names
    /\ services["pwa"].port = 7000 /\ services["admin-api"].port = 7097

\* C37: while a start call is in its build phase its service has no
\* record in the Registry, and a stop of that service invoked then fails
\* with NotRunning.
C37_AbsentDuringBuild ==
    [][\A c \in Callers :
          (call[c].op = "start" /\ call[c].pc = "build")
             => /\ services[call[c].name] = NoRec
                /\ (calls' # calls /\ Invoked.op = "stop"
                       /\ Invoked.name = call[c].name)
                      => Invoked.result = "NotRunning"]_vars

\* the record of the service names process p
TrackedIn(m, ps, p) == ps[p].name \in Names /\ m[ps[p].name].proc = p

\* the pid a stop or prebuild call is about to kill
KillPid(rec) ==
    IF rec.op = "stop" THEN rec.info.pid ELSE rec.toStop[rec.idx].pid

\* C38: a live run process loses the record that names it only in the
\* removal step of a stop or prebuild call that goes on to kill that very
\* process.
C38_NoUntrackedProcess ==
    [][\A p \in ProcIds :
          (/\ TrackedIn(services, proc, p)
           /\ proc'[p].state = "alive"
           /\ ~TrackedIn(services', proc', p))
             => \E c \in Callers :
                   /\ Stepper(c)
                   /\ call'[c].pc \in {"kill", "stop_kill"}
                   /\ KillPid(call'[c]) = p]_vars

\* C40: a prebuild whose repository root is empty or missing returns
\* InvalidEnvironment at its invocation, with the Registry and the
\* processes as they were and no kill issued; a prebuild that fails later,
\* on an unknown service name or a missing project directory, has by then
\* issued a kill attempt for every service it found in the Registry, and,
\* unless a start call overlapped it, none of them has a record.
C40_RootFirstNameLast ==
    [][/\ (calls' # calls /\ Invoked.op = "prebuild" /\ Invoked.root # "repo")
            => /\ ret' = Invoked
               /\ ret'.result = "InvalidEnvironment"
               /\ ret'.kills = <<>> /\ ret'.found = {}
               /\ services' = services /\ proc' = proc
       /\ (ret = IdleCall /\ ret'.op = "prebuild" /\ ret'.root = "repo"
              /\ ret'.result \in {"UnknownService", "InvalidEnvironment"})
            => /\ \E c \in Callers : call[c].op = "prebuild" /\ call[c].pc = "paths"
               /\ {ret'.kills[i].name : i \in 1..Len(ret'.kills)} = ret'.found
               /\ Len(ret'.kills) = Cardinality(ret'.found)
               /\ ~ret'.overlap => ret'.found \cap Present(services') = {}
               /\ services' = services]_vars

\* a prebuild of an unknown service returned UnknownService after it had
\* removed and killed the two services that were running
C40_UnknownAfterStoppingTwo ==
    /\ ret.op = "prebuild" /\ ret.result = "UnknownService"
    /\ ret.name = UnknownName
    /\ Cardinality(ret.found) = 2 /\ Len(ret.kills) = 2
    /\ Present(services) = {}

\* C39: whenever the check of wait_if_needed is made under a healthy lock
\* the subtraction 60 - (now - oldest) does not overflow, so the call
\* does not panic, and a wait it decides on is between 1 and 60 seconds.
C39_WaitWithinWindow ==
    [][\A c \in RlCallers :
          (rl[c].pc = "check" /\ rl'[c] # rl[c] /\ rlock = RlUnlocked)
             => /\ rl'[c].pc # "panicked"
                /\ rl'[c].pc = "sleep" => rl'[c].wait \in 1..Window]_vars

\* C32: a health check that got its client returns true exactly when a
\* response with a status from 200 to 299 arrived within the timeout;
\* when the connection is refused, no answer arrives within the timeout
\* or the status is another one, it returns false and never an error.
C32_FalseNeverError ==
    (hpc = "done" /\ hbuilt)
        => /\ hresult \in {"true", "false"}
           /\ hresult = "true"
                <=> /\ hcond.net = "answers"
                    /\ hcond.delay < 2
                    /\ hcond.status \in 200..299
           /\ (\/ hcond.net = "refused"
               \/ hcond.net = "answers" /\ hcond.delay > 2
               \/ hcond.net = "answers" /\ hcond.status \notin 200..299)
                => hresult = "false"

\* a server that would answer 200 answers after the timeout: false
C32_TimedOutIsFalse ==
    /\ hpc = "done" /\ hbuilt
    /\ hcond = [net |-> "answers", status |-> 200, delay |-> 3]
    /\ hresult = "false"

\* C36: a listing requested again with the key of a successful fetch,
\* within the ttl of that fetch and with caching enabled, is answered
\* from the cache in the step of its lookup: the cached value is returned
\* and neither the rate limiter nor an external tool is involved; and an
\* entry is stored only by a call that fetched successfully.
C36_RepeatAnsweredFromCache ==
    [][/\ mcalls' # mcalls
            => LET prior == mfetched[mcall'.kind][mcall'.key]
               IN (/\ prior.made
                   /\ mclock <= prior.at + prior.ttl
                   /\ mcall'.enabled)
                     => /\ mcall'.pc = "done" /\ mcall'.result = "cached"
                        /\ mcall'.value = prior.value
                        /\ mpasses' = mpasses /\ mtools' = mtools
       /\ \A l \in Listings, k \in Keys :
            (mentries'[l][k].present /\ mentries'[l][k] # mentries[l][k])
               => mcall'.result = "fetched"]_vars

\* the resource inventory fetched by the first call was returned from the
\* cache to the second, one second later, with one pass through the rate
\* limiter in all
C36_AzureRepeatFromCache ==
    /\ mcalls = 2 /\ mclock = 1 /\ mpasses = 1
    /\ mcall.kind = "azure_resources" /\ mcall.pc = "done"
    /\ mcall.result = "cached" /\ mcall.value = 1

====
